---------------------------- MODULE Spec2Model ----------------------------
(***************************************************************************)
(* A model of notjuliet/grove: the canonical CBOR codec (package cbor) and *)
(* the content identifiers (package cid).                                  *)
(*                                                                         *)
(* Bytes are naturals 0..255, byte slices and strings are sequences of     *)
(* bytes.  A uint64 is its 8 big-endian bytes, an int64 and a float64 are  *)
(* their 64-bit patterns in the same form, so that every width the code    *)
(* relies on (wrap-around of uint64, the sign bit of int64) is kept.       *)
(***************************************************************************)
EXTENDS Integers, Sequences, FiniteSets, TLC

VARIABLES
    value,      \* the map[string]any handed to Encode (NoValue when none)
    encOut,     \* Encode: the bytes returned by the latest call (nil before)
    encErr,     \* Encode: the error returned by the latest call
    encPrev,    \* Encode: the bytes returned by the call before the latest
    encCalls,   \* how many times Encode was called on value
    buf,        \* the bytes handed to Decode
    src,        \* where buf comes from: raw, encoded, truncated, corrupted
    d,          \* DecodeFirst's frame: s.b, s.p, stack, currVal, locals, pc
    decVal,     \* Decode: returned value
    decErr,     \* Decode: returned error
    decDone,    \* Decode has returned
    c,          \* cid: the Cid built by Create / CreateEmpty
    cErr,       \* cid: the error of Create / CreateEmpty
    text,       \* cid: the text handed to Parse (c.String() or a crafted one)
    parsed,     \* cid: Parse's result [cid, err]
    bin,        \* cid: the bytes handed to FromBytes (c.ToBytes() or crafted)
    fromBin,    \* cid: FromBytes' result [cid, err]
    tidIn,      \* tid: the (timestamp, clockId) handed to Create
    tidText,    \* tid: the text handed to Validate and Parse
    tidValid,   \* tid: Validate's result
    tidParsed,  \* tid: Parse's result [timestamp, clockId, err]
    clock,      \* tid: the Clock [id, mtx, last]; mtx is the holder or Free
    call,       \* tid: per goroutine, the frame of its call of Clock.Now
    stamps,     \* tid: the values stored in c.last, in the order of the locks
    returned,   \* tid: the greatest TID a call of Now has returned (<<>>: none)
    enc,        \* encoder: the State of an Encode under way
    written,    \* encoder: the bytes the writes made so far were to store
    writes,     \* encoder: how many writes were made
    encRet      \* encoder: the bytes Encode returned (None before)

codecVars == <<value, encOut, encErr, encPrev, encCalls, buf, src, d,
               decVal, decErr, decDone>>
cidVars == <<c, cErr, text, parsed, bin, fromBin>>
tidVars == <<tidIn, tidText, tidValid, tidParsed>>
clockVars == <<clock, call, stamps, returned>>
writeVars == <<enc, written, writes, encRet>>
vars == <<value, encOut, encErr, encPrev, encCalls, buf, src, d,
          decVal, decErr, decDone, c, cErr, text, parsed, bin, fromBin,
          tidIn, tidText, tidValid, tidParsed, clock, call, stamps, returned,
          enc, written, writes, encRet>>

(***************************************************************************)
(* Bounds of the model.                                                    *)
(***************************************************************************)
\* Raw decoder inputs: every sequence over RawBytes of at most this length.
MaxRawLen == 3
\* Encoder inputs: flat maps of at most this many keys.
MaxKeys == 2

(***************************************************************************)
(* Errors and absent values.                                               *)
(***************************************************************************)
Nil == "nil"             \* a nil error
\* A variable of the cid machine holds None until the call that sets it is
\* made, and Some(x) after.
None == <<>>
Some(x) == <<x>>
The(o) == o[1]
NoValue == [t |-> "novalue"]

(***************************************************************************)
(* Bytes and fixed-width integers.                                         *)
(***************************************************************************)
Byte == 0..255

RECURSIVE Zeros(_)
Zeros(n) == IF n = 0 THEN <<>> ELSE <<0>> \o Zeros(n - 1)

\* bytes.Compare: -1, 0 or 1, lexicographic, a proper prefix being smaller.
RECURSIVE Compare(_, _)
Compare(a, b) ==
    IF a = <<>> /\ b = <<>> THEN 0
    ELSE IF a = <<>> THEN -1
    ELSE IF b = <<>> THEN 1
    ELSE IF Head(a) < Head(b) THEN -1
    ELSE IF Head(a) > Head(b) THEN 1
    ELSE Compare(Tail(a), Tail(b))

\* uint64(n) for a small natural n (n < 2^31).
U64(n) == <<0, 0, 0, 0, (n \div 16777216) % 256, (n \div 65536) % 256,
            (n \div 256) % 256, n % 256>>

\* Widening of the big-endian bytes of a uint8/uint16/uint32 to uint64.
Widen(bs) == Zeros(8 - Len(bs)) \o bs

U64Less(a, b) == Compare(a, b) < 0

\* The uint64 fits a natural of the model (< 2^31).
IsSmall(u) == u[1] = 0 /\ u[2] = 0 /\ u[3] = 0 /\ u[4] = 0 /\ u[5] < 128
ToNat(u) == u[5] * 16777216 + u[6] * 65536 + u[7] * 256 + u[8]

\* int(u) < 0: the conversion of a uint64 with its top bit set.
IsNegInt(u) == u[1] >= 128

\* u - 1 modulo 2^64.
RECURSIVE DecBytes(_)
DecBytes(bs) ==
    IF bs = <<>> THEN <<>>
    ELSE LET n == Len(bs)
             front == SubSeq(bs, 1, n - 1)
         IN  IF bs[n] > 0 THEN front \o <<bs[n] - 1>>
             ELSE DecBytes(front) \o <<255>>

\* a + b modulo 2^64.
RECURSIVE CarryInto(_, _, _)
CarryInto(a, b, i) ==
    IF i = 8 THEN 0 ELSE (a[i + 1] + b[i + 1] + CarryInto(a, b, i + 1)) \div 256
AddBytes(a, b) ==
    LET F == [i \in 1..8 |-> (a[i] + b[i] + CarryInto(a, b, i)) % 256]
    IN  <<F[1], F[2], F[3], F[4], F[5], F[6], F[7], F[8]>>

\* u * 2 modulo 2^64.
Double(u) ==
    [i \in 1..8 |-> ((2 * u[i]) % 256) + (IF i < 8 /\ u[i + 1] >= 128 THEN 1 ELSE 0)]

\* -1 - x on 64-bit patterns (two's complement): the bitwise complement.
Complement(u) == [i \in 1..8 |-> 255 - u[i]]

U64x24 == U64(24)
U64x100 == U64(256)
U64x10000 == U64(65536)
U64x100000000 == <<0, 0, 0, 1, 0, 0, 0, 0>>


(***************************************************************************)
(* Package cid.                                                            *)
(***************************************************************************)
Version == 1
SHA256 == 18
CodecRaw == 85
CodecCbor == 113

\* A Go error value of package cid / encoding/base32, by its message.
ErrInvalidCodec == "invalid codec"
ErrTooShort == "cid too short"
ErrInvalidVersion == "invalid version"
ErrInvalidHashType == "invalid hash type"
ErrInvalidDigestSize == "invalid digest size"
ErrRemainder == "cid bytes includes remainder"
ErrInvalidFormat == "invalid cid format"
ErrInvalidLength == "invalid cid length"
ErrIncorrectBinary == "incorrect binary cid"
ErrCorruptInput == "illegal base32 data"

\* The alphabet of b32Encoding, "abcdefghijklmnopqrstuvwxyz234567", as bytes.
b32Alphabet == [i \in 1..32 |-> IF i <= 26 THEN 96 + i ELSE 23 + i]

\* base32.Encoding.EncodeToString without padding: each 5-byte quantum gives 8
\* characters, a final quantum of 1, 2, 3, 4 bytes gives 2, 4, 5, 7.
b32Quantum(q) ==
    LET b(i) == IF i <= Len(q) THEN q[i] ELSE 0
        idx == << b(1) \div 8,
                  ((b(1) * 4) % 32) + (b(2) \div 64),
                  (b(2) \div 2) % 32,
                  ((b(2) * 16) % 32) + (b(3) \div 16),
                  ((b(3) * 2) % 32) + (b(4) \div 128),
                  (b(4) \div 4) % 32,
                  ((b(4) * 8) % 32) + (b(5) \div 32),
                  b(5) % 32 >>
        n == CASE Len(q) = 1 -> 2
               [] Len(q) = 2 -> 4
               [] Len(q) = 3 -> 5
               [] Len(q) = 4 -> 7
               [] OTHER -> 8
    IN  [i \in 1..n |-> b32Alphabet[idx[i] + 1]]

RECURSIVE EncodeToString(_)
EncodeToString(bs) ==
    IF bs = <<>> THEN <<>>
    ELSE IF Len(bs) <= 5 THEN b32Quantum(bs)
    ELSE b32Quantum(SubSeq(bs, 1, 5)) \o EncodeToString(SubSeq(bs, 6, Len(bs)))

\* decodeMap had b32Encoding been built on "234567abcdefghijklmnopqrstuvwxyz",
\* the sorted alphabet of package tid.
b32DecodeMapSorted(ch) ==
    IF ch >= 50 /\ ch <= 55 THEN ch - 50
    ELSE IF ch >= 97 /\ ch <= 122 THEN ch - 91
    ELSE 255

\* decodeMap: the 5-bit value of a character, 255 when it is not of the alphabet.
b32DecodeMap(ch) ==
    IF ch >= 97 /\ ch <= 122 THEN ch - 97
    ELSE IF ch >= 50 /\ ch <= 55 THEN ch - 24
    ELSE 255

\* One quantum of base32.Encoding.decode: dlen characters (8 unless the input
\* ends) packed into 5, 4, 3, 2 or 1 bytes; dlen in {1, 3, 6} packs nothing.
b32Unpack(q) ==
    LET v(i) == IF i <= Len(q) THEN b32DecodeMap(q[i]) ELSE 0
        dst == << v(1) * 8 + (v(2) \div 4),
                  ((v(2) * 64) % 256) + v(3) * 2 + (v(4) \div 16),
                  ((v(4) * 16) % 256) + (v(5) \div 2),
                  ((v(5) * 128) % 256) + v(6) * 4 + (v(7) \div 8),
                  ((v(7) * 32) % 256) + v(8) >>
        n == CASE Len(q) = 8 -> 5
               [] Len(q) = 7 -> 4
               [] Len(q) = 5 -> 3
               [] Len(q) = 4 -> 2
               [] Len(q) = 2 -> 1
               [] OTHER -> 0
    IN  SubSeq(dst, 1, n)

\* byte(enc.padChar) of an Encoding made WithPadding(base32.NoPadding):
\* NoPadding is the rune -1, whose low byte the decoder compares with.
PadByte == 255

\* The inner loop of base32.Encoding.decode on one quantum: chars holds the
\* characters already read (j of them).  The quantum ends at 8 characters, at
\* the end of the input, or at a byte equal to byte(enc.padChar) that stands
\* at j >= 2 with fewer than 8 bytes after it; such a byte ends the decoding
\* when enough bytes follow it, those of the next 7 - j that exist are pad
\* bytes too and j is not 3 or 6.
RECURSIVE b32ReadQuantum(_, _)
b32ReadQuantum(data, chars) ==
    LET j == Len(chars)
        Failed == [chars |-> chars, rest |-> data, end |-> TRUE, err |-> ErrCorruptInput]
    IN  IF j = 8 THEN [chars |-> chars, rest |-> data, end |-> FALSE, err |-> Nil]
        ELSE IF data = <<>> THEN [chars |-> chars, rest |-> data, end |-> TRUE, err |-> Nil]
        ELSE LET in == Head(data)
                 rest == Tail(data)
             IN  IF in = PadByte /\ j >= 2 /\ Len(rest) < 8
                 THEN IF Len(rest) + j < 8 - 1 THEN Failed
                      ELSE IF \E k \in 0..(8 - 1 - j - 1) :
                                 Len(rest) > k /\ rest[k + 1] # PadByte
                      THEN Failed
                      ELSE IF j = 1 \/ j = 3 \/ j = 6 THEN Failed
                      ELSE [chars |-> chars, rest |-> rest, end |-> TRUE, err |-> Nil]
                 ELSE IF b32DecodeMap(in) = 255 THEN Failed
                 ELSE b32ReadQuantum(rest, Append(chars, in))

\* base32.Encoding.decode: quantum after quantum until the input or the
\* decoding ends; with an error come the bytes of the quanta before it.
RECURSIVE b32DecodeQuanta(_)
b32DecodeQuanta(data) ==
    IF data = <<>> THEN [bytes |-> <<>>, err |-> Nil]
    ELSE LET q == b32ReadQuantum(data, <<>>)
         IN  IF q.err # Nil THEN [bytes |-> <<>>, err |-> q.err]
             ELSE IF q.end THEN [bytes |-> b32Unpack(q.chars), err |-> Nil]
             ELSE LET more == b32DecodeQuanta(q.rest)
                  IN  [bytes |-> b32Unpack(q.chars) \o more.bytes, err |-> more.err]

\* base32.Encoding.DecodeString: line breaks are dropped, the rest is decoded.
DecodeString(s) ==
    LET IsText(ch) == ch # 10 /\ ch # 13
    IN  b32DecodeQuanta(SelectSeq(s, IsText))

\* sha256.Sum256 on the contents the model hashes.
Contents == {<<>>, <<97, 98, 99>>, <<0>>, <<97>>}
Sum256(content) ==
    CASE content = <<>> ->
           <<227,176,196,66,152,252,28,20,154,251,244,200,153,111,185,36,
             39,174,65,228,100,155,147,76,164,149,153,27,120,82,184,85>>
      [] content = <<97, 98, 99>> ->
           <<186,120,22,191,143,1,207,234,65,65,64,222,93,174,34,35,
             176,3,97,163,150,23,122,156,180,16,255,97,242,0,21,173>>
      [] content = <<0>> ->
           <<110,52,11,156,255,179,122,152,156,165,68,230,187,120,10,44,
             120,144,29,63,179,55,56,118,133,17,163,6,23,175,160,29>>
      [] content = <<97>> ->
           <<202,151,129,18,202,27,189,202,250,194,49,179,154,35,220,77,
             167,134,239,248,20,124,78,114,185,128,119,133,175,238,72,187>>

\* The Cid struct; Cid{} is its zero value.  A nil and an empty []byte are
\* both the empty sequence.
MkCid(version, codec, hashType, digest, bytes) ==
    [Version |-> version, Codec |-> codec, HashType |-> hashType,
     Digest |-> digest, Bytes |-> bytes]
ZeroCid == MkCid(0, 0, 0, <<>>, <<>>)

CidCreate(codec, content) ==
    IF codec # CodecRaw /\ codec # CodecCbor
    THEN [cid |-> ZeroCid, err |-> ErrInvalidCodec]
    ELSE LET digest == Sum256(content)
             bytes == <<Version, codec % 256, SHA256, 32>> \o digest
         IN  [cid |-> MkCid(Version, codec, SHA256, digest, bytes), err |-> Nil]

CidCreateEmpty(codec) ==
    IF codec # CodecRaw /\ codec # CodecCbor
    THEN [cid |-> ZeroCid, err |-> ErrInvalidCodec]
    ELSE [cid |-> MkCid(Version, codec, SHA256, <<>>,
                        <<Version, codec % 256, SHA256, 0>>),
          err |-> Nil]

\* decode with its second length test off by one (<= for <): it refuses the
\* bytes that end with the digest.  C9 has to tell it from decode.
decodeOffByOne(bytes) ==
    LET length == Len(bytes)
        Bad(e) == [cid |-> ZeroCid, err |-> e]
    IN  IF length < 4 THEN Bad(ErrTooShort)
        ELSE LET version == bytes[1]
                 codec == bytes[2]
                 hashType == bytes[3]
                 digestSize == bytes[4]
             IN  IF version # Version THEN Bad(ErrInvalidVersion)
                 ELSE IF codec # CodecRaw /\ codec # CodecCbor THEN Bad(ErrInvalidCodec)
                 ELSE IF hashType # SHA256 THEN Bad(ErrInvalidHashType)
                 ELSE IF digestSize # 32 /\ digestSize # 0 THEN Bad(ErrInvalidDigestSize)
                 ELSE IF length <= 4 + digestSize THEN Bad(ErrTooShort)
                 ELSE IF Len(SubSeq(bytes, 5 + digestSize, length)) # 0
                      THEN Bad(ErrRemainder)
                 ELSE [cid |-> MkCid(Version, codec, hashType,
                                     SubSeq(bytes, 5, 4 + digestSize),
                                     SubSeq(bytes, 1, 4 + digestSize)),
                       err |-> Nil]

decode(bytes) ==
    LET length == Len(bytes)
        Bad(e) == [cid |-> ZeroCid, err |-> e]
    IN  IF length < 4 THEN Bad(ErrTooShort)
        ELSE LET version == bytes[1]
                 codec == bytes[2]
                 hashType == bytes[3]
                 digestSize == bytes[4]
             IN  IF version # Version THEN Bad(ErrInvalidVersion)
                 ELSE IF codec # CodecRaw /\ codec # CodecCbor THEN Bad(ErrInvalidCodec)
                 ELSE IF hashType # SHA256 THEN Bad(ErrInvalidHashType)
                 ELSE IF digestSize # 32 /\ digestSize # 0 THEN Bad(ErrInvalidDigestSize)
                 ELSE IF length < 4 + digestSize THEN Bad(ErrTooShort)
                 ELSE IF Len(SubSeq(bytes, 5 + digestSize, length)) # 0
                      THEN Bad(ErrRemainder)
                 ELSE [cid |-> MkCid(Version, codec, hashType,
                                     SubSeq(bytes, 5, 4 + digestSize),
                                     SubSeq(bytes, 1, 4 + digestSize)),
                       err |-> Nil]

CidParse(s) ==
    IF Len(s) < 2 \/ s[1] # 98
    THEN [cid |-> ZeroCid, err |-> ErrInvalidFormat]
    ELSE IF Len(s) # 59 /\ Len(s) # 8
    THEN [cid |-> ZeroCid, err |-> ErrInvalidLength]
    ELSE LET dec == DecodeString(Tail(s))
         IN  IF dec.err # Nil THEN [cid |-> ZeroCid, err |-> dec.err]
             ELSE decode(dec.bytes)

CidString(cid) == <<98>> \o EncodeToString(cid.Bytes)

CidFromBytes(bytes) ==
    IF Len(bytes) # 37 /\ Len(bytes) # 5
    THEN [cid |-> ZeroCid, err |-> ErrInvalidLength]
    ELSE IF bytes[1] # 0
    THEN [cid |-> ZeroCid, err |-> ErrIncorrectBinary]
    ELSE decode(Tail(bytes))

CidToBytes(cid) == cid.Bytes

\* CidLink.String: the text form of the link's bytes.
CidLinkString(bytes) == <<98>> \o EncodeToString(bytes)

(***************************************************************************)
(* Go values (any).  t is the dynamic type, v the value: a 64-bit pattern  *)
(* for uint64, int64 and float64, the bytes for []byte, string and         *)
(* cid.CidLink, the elements for []any, and for map[string]any the Go map  *)
(* as a function from keys to values.                                      *)
(***************************************************************************)
NilV == [t |-> "nil"]
BoolV(b) == [t |-> "bool", v |-> b]
Uint64V(u) == [t |-> "uint64", v |-> u]
Int64V(bits) == [t |-> "int64", v |-> bits]
Float64V(bits) == [t |-> "float64", v |-> bits]
BytesV(bs) == [t |-> "bytes", v |-> bs]
StringV(bs) == [t |-> "string", v |-> bs]
ArrayV(elems) == [t |-> "array", v |-> elems]
MapV(m) == [t |-> "map", v |-> m]
LinkV(bs) == [t |-> "link", v |-> bs]
\* A value of a type writeAny has no case for (a struct, a channel, ...).
OtherV == [t |-> "other"]
\* &arr and &m: what currVal holds right after a container is opened.
PtrV(kind) == [t |-> "ptr", v |-> kind]

EmptyMap == [k \in {} |-> NilV]
\* m[k] = x
MapSet(m, k, x) == [y \in DOMAIN m \cup {k} |-> IF y = k THEN x ELSE m[y]]

(***************************************************************************)
(* Package cbor, the encoder.  A State s is [len, cap, p, out, err]: len   *)
(* and cap are those of the slice s.b, p is the cursor s.p, and out is the *)
(* bytes the writes have stored in s.b, from index 0 on.  The rest of s.b  *)
(* is the zeros make put there: every write stores at the cursor and moves *)
(* the cursor past what it stored.  err is what the last write returned,   *)
(* or the panic it raised.                                                 *)
(***************************************************************************)
ErrUnsupportedType == "unsupported type for CBOR encoding"
ErrNeeded == "needed count cannot be negative"
PanicIndex == "panic: runtime error: index out of range"
PanicMakeSlice == "panic: runtime error: makeslice: len or cap out of range"
IsPanic(err) == err \in {PanicIndex, PanicMakeSlice}

\* make([]byte, 1024)
BufferSize == 1024
\* &State{b: make([]byte, 1024)}
NewState == [len |-> BufferSize, cap |-> BufferSize, p |-> 0, out |-> <<>>, err |-> Nil]

\* s.b
Buffer(s) == s.out \o [i \in 1..(s.len - Len(s.out)) |-> 0]

Max(a, b) == IF a > b THEN a ELSE b

ensureCapacity(s, needed) ==
    IF needed < 0 THEN [s EXCEPT !.err = ErrNeeded]
    ELSE LET currentLen == s.len
             currentCap == s.cap
             requiredCap == currentLen + needed
         IN  IF currentCap < requiredCap
             THEN LET newCapacity == Max(currentCap * 2, requiredCap)
                  IN  [s EXCEPT !.len = newCapacity, !.cap = newCapacity, !.err = Nil]
             ELSE [s EXCEPT !.err = Nil]

ensureWrite(s, n) ==
    IF s.p + n > s.len THEN ensureCapacity(s, n) ELSE [s EXCEPT !.err = Nil]

\* The store of the bytes at s.b[s.p:] and `s.p += len(bytes)`: an index
\* expression, PutUint16/32/64 or copy into s.b[s.p:s.p+n].  It panics when
\* the bytes do not fit below len(s.b).
Store(s, bytes) ==
    IF s.p + Len(bytes) > s.len THEN [s EXCEPT !.err = PanicIndex]
    ELSE [s EXCEPT !.out = @ \o bytes, !.p = @ + Len(bytes)]

\* A write whose returned error the caller drops; a panic is not dropped.
Dropped(s) == IF IsPanic(s.err) THEN s ELSE [s EXCEPT !.err = Nil]

WriteUint8(s, val) ==
    LET e == ensureWrite(s, 1)
    IN  IF e.err # Nil THEN e ELSE Store(e, <<val>>)

\* binary.BigEndian.PutUint16/32/64 of uint16(arg), uint32(arg), arg.
WriteUint16(s, arg) ==
    LET e == ensureWrite(s, 2)
    IN  IF e.err # Nil THEN e ELSE Store(e, SubSeq(arg, 7, 8))

WriteUint32(s, arg) ==
    LET e == ensureWrite(s, 4)
    IN  IF e.err # Nil THEN e ELSE Store(e, SubSeq(arg, 5, 8))

WriteUint64(s, arg) ==
    LET e == ensureWrite(s, 8)
    IN  IF e.err # Nil THEN e ELSE Store(e, arg)

\* ensureWrite(8), then the marker through writeUint8 and the eight bytes
\* of the float at the cursor the marker has moved.
WriteFloat64(s, bits) ==
    LET e == ensureWrite(s, 8)
    IN  IF e.err # Nil THEN e
        ELSE LET m == Dropped(WriteUint8(e, 251))
             IN  IF m.err # Nil THEN m ELSE Store(m, bits)

WriteTypeArgument(s, info, arg) ==
    LET first(k) == Dropped(WriteUint8(s, ((info * 32) % 256) + k))
        then(m, rest) == IF m.err # Nil THEN m ELSE Dropped(rest)
    IN  IF U64Less(arg, U64x24) THEN first(arg[8])
        ELSE IF U64Less(arg, U64x100)
             THEN then(first(24), WriteUint8(first(24), arg[8]))
        ELSE IF U64Less(arg, U64x10000)
             THEN then(first(25), WriteUint16(first(25), arg))
        ELSE IF U64Less(arg, U64x100000000)
             THEN then(first(26), WriteUint32(first(26), arg))
        ELSE then(first(27), WriteUint64(first(27), arg))

WriteBytes(s, val, info) ==
    LET h == WriteTypeArgument(s, info, U64(Len(val)))
    IN  IF h.err # Nil THEN h
        ELSE LET e == ensureWrite(h, Len(val))
             IN  IF e.err # Nil THEN e ELSE Store(e, val)

WriteString(s, val) == WriteBytes(s, val, 3)

WriteCid(s, link) ==
    LET t == WriteTypeArgument(s, 6, U64(42))
    IN  IF t.err # Nil THEN t
        ELSE LET h == WriteTypeArgument(t, 2, U64(Len(link) + 1))
             IN  IF h.err # Nil THEN h
                 ELSE LET z == WriteUint8(h, 0)
                      IN  IF z.err # Nil THEN z
                          ELSE LET e == ensureWrite(z, Len(link))
                               IN  IF e.err # Nil THEN e ELSE Store(e, link)

\* Every order `for key, val := range v` may visit the keys in: Go leaves the
\* iteration order of a map unspecified.
RangeOrders(S) ==
    {p \in [1..Cardinality(S) -> S] : \A k \in S : \E i \in DOMAIN p : p[i] = k}

\* writeAny: the set of the states it may leave, one per iteration order of
\* the maps the value holds.  A write after an error or a panic is not
\* reached.
RECURSIVE WriteAny(_, _)
WriteElems(s, elems) ==
    LET RECURSIVE From(_, _)
        From(S, i) ==
            IF i > Len(elems) THEN S
            ELSE From(UNION {IF t.err # Nil THEN {t} ELSE WriteAny(t, elems[i]) : t \in S},
                      i + 1)
    IN  From({s}, 1)
WritePairs(s, m, order) ==
    LET RECURSIVE From(_, _)
        From(S, i) ==
            IF i > Len(order) THEN S
            ELSE From(UNION {IF t.err # Nil THEN {t}
                             ELSE LET k == WriteString(t, order[i])
                                  IN  IF k.err # Nil THEN {k}
                                      ELSE WriteAny(k, m[order[i]]) : t \in S},
                      i + 1)
    IN  From({s}, 1)
WriteAny(s, x) ==
    CASE x.t = "nil" -> {Dropped(WriteUint8(s, 246))}
      [] x.t = "bool" -> {Dropped(IF x.v THEN WriteUint8(s, 245) ELSE WriteUint8(s, 244))}
      [] x.t = "string" -> {Dropped(WriteString(s, x.v))}
      [] x.t = "bytes" -> {Dropped(WriteBytes(s, x.v, 2))}
      [] x.t = "int64" ->
           {Dropped(IF ~IsNegInt(x.v) THEN WriteTypeArgument(s, 0, x.v)
                    ELSE WriteTypeArgument(s, 1, Complement(x.v)))}
      [] x.t = "uint64" -> {Dropped(WriteTypeArgument(s, 0, x.v))}
      [] x.t = "float64" -> {Dropped(WriteFloat64(s, x.v))}
      [] x.t = "array" ->
           LET h == Dropped(WriteTypeArgument(s, 4, U64(Len(x.v))))
           IN  IF h.err # Nil THEN {h} ELSE WriteElems(h, x.v)
      [] x.t = "map" ->
           LET h == Dropped(WriteTypeArgument(s, 5, U64(Cardinality(DOMAIN x.v))))
           IN  IF h.err # Nil THEN {h}
               ELSE UNION {WritePairs(h, x.v, order) : order \in RangeOrders(DOMAIN x.v)}
      [] x.t = "link" -> {WriteCid(s, x.v)}
      [] OTHER -> {[s EXCEPT !.err = ErrUnsupportedType]}

\* Encode: the possible results (s.b[:s.p], nil) or (nil, err); a panic of
\* the writes leaves Encode as the panic.
Encode(x) ==
    {IF r.err # Nil THEN [out |-> <<>>, err |-> r.err]
     ELSE [out |-> SubSeq(r.out, 1, r.p), err |-> Nil] : r \in WriteAny(NewState, x)}

(***************************************************************************)
(* Package cbor, the decoder.  A state s is [b, p]; a read returns the     *)
(* value read, the new position and the error.                             *)
(***************************************************************************)
ErrEmpty == "input buffer is empty"
ErrEOF == "unexpected end of input"
ErrEOFBytes == "unexpected end of input reading bytes"
ErrNotMinimal == "integer is not minimally encoded"
ErrArgInfo == "invalid argument encoding info"
ErrNaN == "decoded float is NaN, which is not allowed"
ErrInf == "decoded float is infinite, which is not allowed"
ErrUTF8 == "invalid UTF-8 string"
ErrCidShort == "invalid CID encoding: length too short for prefix"
ErrCidPrefix == "invalid CID encoding: expected 0x00 prefix"
ErrCidLength == "invalid CID length"
ErrCidInvalid == "invalid CID"
ErrTagContent == "expected tag content to be type 2 (bytes)"
ErrTag == "unsupported tag number"
ErrSimple == "invalid simple value info"
ErrKeyType == "map key must be a string"
ErrKeyShorter == "map key order violation: key is shorter than previous key"
ErrKeyDuplicate == "map key order violation: duplicate key"
ErrKeySmaller == "map key order violation: key is lexicographically smaller"
ErrTrailing == "decoding finished with remaining bytes"

MaxUint8 == U64(255)
MaxUint16 == U64(65535)
MaxUint32 == <<0, 0, 0, 0, 255, 255, 255, 255>>
\* makeslice panics when cap * 16 bytes (the size of an `any`) exceeds
\* maxAlloc = 2^48: cap > 2^44, which includes every int(arg) < 0.
MaxAnyCap == <<0, 0, 16, 0, 0, 0, 0, 0>>
MinInt64Bits == <<128, 0, 0, 0, 0, 0, 0, 0>>

Read(val, p, err) == [val |-> val, p |-> p, err |-> err]

ensureRead(s, n) == IF s.p + n > Len(s.b) THEN ErrEOF ELSE Nil

\* readUint8/16/32/64: the value widened to uint64; 0 and s.p unchanged on error.
ReadUint(s, n) ==
    IF ensureRead(s, n) # Nil THEN Read(U64(0), s.p, ensureRead(s, n))
    ELSE Read(Widen(SubSeq(s.b, s.p + 1, s.p + n)), s.p + n, Nil)
ReadUint8(s) == ReadUint(s, 1)
ReadUint16(s) == ReadUint(s, 2)
ReadUint32(s) == ReadUint(s, 4)
ReadUint64(s) == ReadUint(s, 8)

\* math.IsNaN / math.IsInf on the bits of a float64.
ExpAllOnes(bits) == bits[1] % 128 = 127 /\ bits[2] >= 240
FracZero(bits) == bits[2] % 16 = 0 /\ \A i \in 3..8 : bits[i] = 0
IsNaN(bits) == ExpAllOnes(bits) /\ ~FracZero(bits)
IsInf(bits) == ExpAllOnes(bits) /\ FracZero(bits)

ReadFloat64(s) ==
    IF ensureRead(s, 8) # Nil THEN Read(U64(0), s.p, ensureRead(s, 8))
    ELSE LET bits == SubSeq(s.b, s.p + 1, s.p + 8)
         IN  IF IsNaN(bits) THEN Read(U64(0), s.p + 8, ErrNaN)
             ELSE IF IsInf(bits) THEN Read(U64(0), s.p + 8, ErrInf)
             ELSE Read(bits, s.p + 8, Nil)

\* The minimality test of one width: the value is tested first, so a failed
\* read (value 0) is reported as a non-minimal integer.
MinimalOrErr(r, limit) ==
    IF U64Less(r.val, limit) THEN Read(U64(0), r.p, ErrNotMinimal) ELSE r

ReadArgument(s, info) ==
    IF info < 24 THEN Read(U64(info), s.p, Nil)
    ELSE CASE info = 24 -> MinimalOrErr(ReadUint8(s), U64x24)
           [] info = 25 -> MinimalOrErr(ReadUint16(s), MaxUint8)
           [] info = 26 -> MinimalOrErr(ReadUint32(s), MaxUint16)
           [] info = 27 -> MinimalOrErr(ReadUint64(s), MaxUint32)
           [] OTHER -> Read(U64(0), s.p, ErrArgInfo)

ReadBytes(s, length) ==
    IF U64Less(U64(Len(s.b) - s.p), length) THEN Read(<<>>, s.p, ErrEOFBytes)
    ELSE Read(SubSeq(s.b, s.p + 1, s.p + ToNat(length)), s.p + ToNat(length), Nil)

\* utf8.Valid.
RECURSIVE Utf8Valid(_)
Utf8Valid(bs) ==
    IF bs = <<>> THEN TRUE
    ELSE LET b1 == bs[1]
             Cont(i, lo, hi) == i <= Len(bs) /\ bs[i] >= lo /\ bs[i] <= hi
             Rest(n) == Utf8Valid(SubSeq(bs, n + 1, Len(bs)))
         IN  IF b1 < 128 THEN Rest(1)
             ELSE IF b1 >= 194 /\ b1 <= 223 THEN Cont(2, 128, 191) /\ Rest(2)
             ELSE IF b1 = 224 THEN Cont(2, 160, 191) /\ Cont(3, 128, 191) /\ Rest(3)
             ELSE IF b1 = 237 THEN Cont(2, 128, 159) /\ Cont(3, 128, 191) /\ Rest(3)
             ELSE IF b1 >= 225 /\ b1 <= 239
                  THEN Cont(2, 128, 191) /\ Cont(3, 128, 191) /\ Rest(3)
             ELSE IF b1 = 240
                  THEN Cont(2, 144, 191) /\ Cont(3, 128, 191) /\ Cont(4, 128, 191) /\ Rest(4)
             ELSE IF b1 >= 241 /\ b1 <= 243
                  THEN Cont(2, 128, 191) /\ Cont(3, 128, 191) /\ Cont(4, 128, 191) /\ Rest(4)
             ELSE IF b1 = 244
                  THEN Cont(2, 128, 143) /\ Cont(3, 128, 191) /\ Cont(4, 128, 191) /\ Rest(4)
             ELSE FALSE

ReadString(s, length) ==
    LET r == ReadBytes(s, length)
    IN  IF r.err # Nil THEN r
        ELSE IF ~Utf8Valid(r.val) THEN Read(<<>>, r.p, ErrUTF8)
        ELSE r

ReadTypeInfo(s) ==
    LET r == ReadUint8(s)
    IN  IF r.err # Nil THEN [majorType |-> 0, info |-> 0, p |-> r.p, err |-> r.err]
        ELSE [majorType |-> r.val[8] \div 32, info |-> r.val[8] % 32,
              p |-> r.p, err |-> Nil]

\* readCid.  int(length) is negative for length >= 2^63: ensureRead then lets
\* it pass, s.b[s.p] panics at the end of the input, and int(length - 1) is
\* either negative (an error) or, for 2^63, too long for make (a panic).
\* ensureRead(int(length)) of a uint64 length: n is the 64-bit pattern of
\* int(length), and s.p+n is computed in int, where it wraps.  The test
\* s.p+n > len(s.b) is false of every negative sum.
ensureReadInt(s, n) ==
    LET sum == AddBytes(U64(s.p), n)
    IN  IF ~IsNegInt(sum) /\ U64Less(U64(Len(s.b)), sum) THEN ErrEOF ELSE Nil

ReadCid(s, length) ==
    IF length = U64(0) THEN Read(<<>>, s.p, ErrCidShort)
    ELSE IF ensureReadInt(s, length) # Nil THEN Read(<<>>, s.p, ErrEOF)
    ELSE IF s.p >= Len(s.b) THEN Read(<<>>, s.p, PanicIndex)
    ELSE IF s.b[s.p + 1] # 0 THEN Read(<<>>, s.p, ErrCidPrefix)
    ELSE LET cidLen == DecBytes(length)
         IN  IF IsNegInt(cidLen) \/ cidLen = U64(0) THEN Read(<<>>, s.p, ErrCidLength)
             ELSE IF ~IsSmall(cidLen) THEN Read(<<>>, s.p, PanicMakeSlice)
             ELSE LET cidBytes == SubSeq(s.b, s.p + 2, s.p + ToNat(length))
                  IN  IF CidParse(CidLinkString(cidBytes)).err # Nil
                      THEN Read(<<>>, s.p, ErrCidInvalid)
                      ELSE Read(cidBytes, s.p + ToNat(length), Nil)

(***************************************************************************)
(* DecodeFirst as a frame: s (b, p), the container stack (top first), the  *)
(* locals currVal, majorType, info and arg, and the place pc it is at:     *)
(*   loop   the test of `for s.p < len(s.b)`                               *)
(*   feed   the test of `for stack != nil`, currVal holding an item        *)
(*   ret    returned (value, remainder, err)                               *)
(*   panic  the goroutine panicked (err is the panic)                      *)
(* start is where the item read last begins; declared (of a container) is  *)
(* the argument of its header; both are kept for stating properties only.  *)
(***************************************************************************)
\* A nil *string / nil []byte is <<>>, a non-nil one <<x>>.
NilRef == <<>>
Ref(x) == <<x>>

Container(isMap, elements, remaining, declared) ==
    [isMap |-> isMap, elements |-> elements, currMapKey |-> NilRef,
     prevMapKeyBytes |-> NilRef, remaining |-> remaining, declared |-> declared]

IdleFrame ==
    [pc |-> "idle", b |-> <<>>, p |-> 0, stack |-> <<>>, currVal |-> NilV,
     majorType |-> 0, info |-> 0, arg |-> U64(0), start |-> 0,
     value |-> NilV, remainder |-> <<>>, err |-> Nil]

\* return value, s.b[s.p:], err
Return(f, p, val, err) ==
    [f EXCEPT !.pc = "ret", !.p = p, !.value = val,
              !.remainder = SubSeq(f.b, p + 1, Len(f.b)), !.err = err]
Panic(f, p, err) == [f EXCEPT !.pc = "panic", !.p = p, !.err = err]
Fail(f, p, err) == IF IsPanic(err) THEN Panic(f, p, err) ELSE Return(f, p, NilV, err)

\* DecodeFirst, up to the loop.
DecodeFirstCall(b) ==
    IF Len(b) = 0
    THEN [IdleFrame EXCEPT !.pc = "ret", !.err = ErrEmpty]
    ELSE [IdleFrame EXCEPT !.pc = "loop", !.b = b]

\* The item is a scalar (or an empty container): on to the feed loop.
Item(f, p, val) == [f EXCEPT !.pc = "feed", !.p = p, !.currVal = val]

\* The item opens a container: push it and `continue`.
Open(f, p, isMap, elements, remaining) ==
    [f EXCEPT !.pc = "loop", !.p = p,
              !.currVal = PtrV(IF isMap THEN "map" ELSE "array"),
              !.stack = <<Container(isMap, elements, remaining, f.arg)>> \o f.stack]

\* The tag 42 case: the content's header, then readCid.
ReadLink(f, p) ==
    LET ti == ReadTypeInfo([b |-> f.b, p |-> p])
    IN  IF ti.err # Nil THEN Fail(f, ti.p, ti.err)
        ELSE IF ti.majorType # 2 THEN Fail(f, ti.p, ErrTagContent)
        ELSE LET ca == ReadArgument([b |-> f.b, p |-> ti.p], ti.info)
             IN  IF ca.err # Nil THEN Fail(f, ca.p, ca.err)
                 ELSE LET rc == ReadCid([b |-> f.b, p |-> ca.p], ca.val)
                      IN  IF rc.err # Nil THEN Fail(f, rc.p, rc.err)
                          ELSE Item(f, rc.p, LinkV(rc.val))

\* The switch on majorType, the header read and arg set.
ReadValue(f, p) ==
    LET s == [b |-> f.b, p |-> p]
    IN  CASE f.majorType = 0 -> Item(f, p, Uint64V(f.arg))
          [] f.majorType = 1 -> Item(f, p, Int64V(Complement(f.arg)))
          [] f.majorType = 2 ->
               LET r == ReadBytes(s, f.arg)
               IN  IF r.err # Nil THEN Fail(f, r.p, r.err)
                   ELSE Item(f, r.p, BytesV(r.val))
          [] f.majorType = 3 ->
               LET r == ReadString(s, f.arg)
               IN  IF r.err # Nil THEN Fail(f, r.p, r.err)
                   ELSE Item(f, r.p, StringV(r.val))
          [] f.majorType = 4 ->
               IF U64Less(MaxAnyCap, f.arg) THEN Panic(f, p, PanicMakeSlice)
               ELSE IF f.arg # U64(0) THEN Open(f, p, FALSE, <<>>, f.arg)
               ELSE Item(f, p, ArrayV(<<>>))
          [] f.majorType = 5 ->
               IF f.arg # U64(0) THEN Open(f, p, TRUE, EmptyMap, Double(f.arg))
               ELSE Item(f, p, MapV(EmptyMap))
          [] f.majorType = 6 ->
               IF f.arg = U64(42) THEN ReadLink(f, p)
               ELSE Fail(f, p, ErrTag)
          [] OTHER ->
               CASE f.info = 20 -> Item(f, p, BoolV(FALSE))
                 [] f.info = 21 -> Item(f, p, BoolV(TRUE))
                 [] f.info = 22 -> Item(f, p, NilV)
                 [] f.info = 27 ->
                      LET r == ReadFloat64(s)
                      IN  IF r.err # Nil THEN Fail(f, r.p, r.err)
                          ELSE Item(f, r.p, Float64V(r.val))
                 [] OTHER -> Fail(f, p, ErrSimple)

\* One pass of the outer loop's body up to the feed loop: readTypeInfo,
\* readArgument for major types below 7, then the switch.
ReadItem(f) ==
    LET ti == ReadTypeInfo([b |-> f.b, p |-> f.p])
    IN  IF ti.err # Nil THEN Fail(f, ti.p, ti.err)
        ELSE LET a == IF ti.majorType < 7
                      THEN ReadArgument([b |-> f.b, p |-> ti.p], ti.info)
                      ELSE Read(U64(0), ti.p, Nil)
                 g == [f EXCEPT !.majorType = ti.majorType, !.info = ti.info,
                                !.arg = a.val, !.start = f.p]
             IN  IF a.err # Nil THEN Fail(g, a.p, a.err)
                 ELSE ReadValue(g, a.p)

\* The key branch of the feed loop: the type of the key, then its order
\* against the previous key of the same map.
KeyError(top, currVal) ==
    IF currVal.t # "string" THEN ErrKeyType
    ELSE IF top.prevMapKeyBytes = NilRef THEN Nil
    ELSE LET prev == top.prevMapKeyBytes[1]
         IN  IF Len(currVal.v) < Len(prev) THEN ErrKeyShorter
             ELSE IF Len(currVal.v) = Len(prev) /\ Compare(currVal.v, prev) = 0
                  THEN ErrKeyDuplicate
             ELSE IF Len(currVal.v) = Len(prev) /\ Compare(currVal.v, prev) < 0
                  THEN ErrKeySmaller
             ELSE Nil

\* The top container after currVal is put in it (before remaining--).
Put(top, currVal) ==
    IF top.isMap
    THEN IF top.currMapKey = NilRef
         THEN [top EXCEPT !.prevMapKeyBytes = Ref(currVal.v),
                          !.currMapKey = Ref(currVal.v)]
         ELSE [top EXCEPT !.elements = MapSet(top.elements, top.currMapKey[1], currVal),
                          !.currMapKey = NilRef]
    ELSE [top EXCEPT !.elements = Append(top.elements, currVal)]

\* One pass of the feed loop's body: put currVal in the top container, count
\* it, and either close the container (its collection becomes currVal, the
\* loop goes on with the parent) or `goto nextItem`.
Feed(f) ==
    LET top == f.stack[1]
        keyErr == IF top.isMap /\ top.currMapKey = NilRef
                  THEN KeyError(top, f.currVal) ELSE Nil
    IN  IF keyErr # Nil THEN Return(f, f.p, NilV, keyErr)
        ELSE LET put == Put(top, f.currVal)
                 left == DecBytes(top.remaining)
             IN  IF left = U64(0)
                 THEN [f EXCEPT !.pc = "feed",
                                !.currVal = IF put.isMap THEN MapV(put.elements)
                                            ELSE ArrayV(put.elements),
                                !.stack = Tail(f.stack)]
                 ELSE [f EXCEPT !.pc = "loop",
                                !.stack = <<[put EXCEPT !.remaining = left]>>
                                              \o Tail(f.stack)]

\* One step of DecodeFirst from a frame that has not returned.
DecodeStep(f) ==
    CASE f.pc = "loop" /\ f.p < Len(f.b) -> ReadItem(f)
      [] f.pc = "loop" /\ f.p >= Len(f.b) -> Return(f, f.p, f.currVal, Nil)
      [] f.pc = "feed" /\ f.stack # <<>> -> Feed(f)
      [] f.pc = "feed" /\ f.stack = <<>> -> Return(f, f.p, f.currVal, Nil)
      [] OTHER -> f

RECURSIVE RunDecode(_)
RunDecode(f) == IF f.pc \in {"loop", "feed"} THEN RunDecode(DecodeStep(f)) ELSE f

\* DecodeFirst(buf): the frame it ends in (value, remainder, err, or a panic).
DecodeFirst(b) == RunDecode(DecodeFirstCall(b))

\* Decode, given the frame DecodeFirst ended in.  A panic of DecodeFirst is
\* not recovered: it reaches Decode's caller as it is.
DecodeResult(f) ==
    IF f.pc = "panic" THEN [val |-> NilV, err |-> f.err]
    ELSE IF f.err # Nil THEN [val |-> NilV, err |-> f.err]
    ELSE IF Len(f.remainder) # 0 THEN [val |-> f.value, err |-> ErrTrailing]
    ELSE [val |-> f.value, err |-> Nil]

Decode(b) == DecodeResult(DecodeFirst(b))

(***************************************************************************)
(* The inputs of the model.                                                *)
(***************************************************************************)
KeyA == <<97>>
KeyB == <<98>>
KeyAA == <<97, 97>>
Keys == {KeyA, KeyB, KeyAA}

LinkCbor == LinkV(CidCreate(CodecCbor, <<97, 98, 99>>).cid.Bytes)
LinkEmpty == LinkV(CidCreateEmpty(CodecRaw).cid.Bytes)

\* Values of one entry of a map: every variant of the value model, the
\* integers at the limits of the argument widths, and nested collections.
Leaves ==
    { NilV, BoolV(TRUE), BoolV(FALSE),
      Uint64V(U64(0)), Uint64V(U64(23)), Uint64V(U64(24)), Uint64V(U64(255)),
      Uint64V(U64(256)), Uint64V(U64(65535)), Uint64V(U64(65536)),
      Uint64V(MaxUint32), Uint64V(U64x100000000),
      Uint64V(Complement(U64(0))),
      Int64V(Complement(U64(0))), Int64V(Complement(U64(24))),
      Int64V(MinInt64Bits), Int64V(U64(7)),
      Float64V(<<63, 248, 0, 0, 0, 0, 0, 0>>), Float64V(<<128, 0, 0, 0, 0, 0, 0, 0>>),
      BytesV(<<>>), BytesV(<<0, 255>>),
      StringV(<<>>), StringV(<<120>>), StringV(<<195, 169>>),
      ArrayV(<<>>), ArrayV(<<Uint64V(U64(1)), StringV(<<120>>), NilV>>),
      ArrayV(<<ArrayV(<<BoolV(TRUE)>>), MapV(KeyA :> NilV)>>),
      MapV(EmptyMap),
      MapV(KeyB :> Uint64V(U64(1)) @@ KeyA :> Uint64V(U64(2))),
      MapV(KeyA :> MapV(KeyA :> ArrayV(<<NilV>>))),
      LinkCbor, LinkEmpty,
      OtherV, ArrayV(<<NilV, OtherV>>) }

\* Values of the entries of a map of several keys.
PairLeaves == { NilV, Uint64V(U64(1)), StringV(<<120>>), LinkEmpty }

\* The maps handed to Encode.
Values ==
    { MapV(m) : m \in UNION { [K -> IF Cardinality(K) <= 1 THEN Leaves ELSE PairLeaves] :
                              K \in {K \in SUBSET Keys : Cardinality(K) <= MaxKeys} } }

RECURSIVE SeqsUpTo(_, _)
SeqsUpTo(S, n) ==
    IF n = 0 THEN {<<>>}
    ELSE LET shorter == SeqsUpTo(S, n - 1)
         IN  shorter \cup {Append(q, x) : q \in {r \in shorter : Len(r) = n - 1}, x \in S}

\* The bytes raw inputs are drawn from: uint 0, the 1- and 2-byte argument
\* selectors, text of length 1 ('a'), arrays of 1 and 2, map of 1, null, 0xff.
RawBytes == {0, 24, 25, 97, 129, 130, 161, 246, 255}

\* Crafted inputs: map key order, the widths of arguments and of counts,
\* tags and links, floats and simple values, indefinite lengths.
Crafted ==
    { <<162, 97, 97, 0, 97, 97, 0>>,
      <<162, 98, 98, 98, 0, 97, 97, 0>>,
      <<162, 97, 98, 0, 97, 97, 0>>,
      <<162, 97, 97, 0, 98, 98, 98, 0>>,
      <<162, 96, 0, 96, 0>>,
      <<129, 162, 97, 98, 0, 97, 97, 0>>,
      <<162, 97, 97, 161, 97, 98, 0, 97, 97, 0>>,
      <<162, 97, 97, 161, 97, 98, 0>>,
      <<187, 128, 0, 0, 0, 0, 0, 0, 1, 97, 97, 0>>,
      <<187, 128, 0, 0, 0, 0, 0, 0, 0, 97, 97, 0>>,
      <<26, 0, 0, 255, 255>>, <<26, 0, 0, 255, 254>>, <<26, 0, 1, 0, 0>>,
      <<27, 0, 0, 0, 0, 255, 255, 255, 255>>, <<27, 0, 0, 0, 0, 255, 255, 255, 254>>,
      <<27, 0, 0, 0, 1, 0, 0, 0, 0>>,
      <<89, 0, 255>>, <<121, 0, 255>>, <<153, 0, 255>>, <<185, 0, 255>>,
      <<59, 255, 255, 255, 255, 255, 255, 255, 255>>,
      <<59, 127, 255, 255, 255, 255, 255, 255, 255>>,
      <<216, 42, 69, 0, 1, 85, 18, 0>>, <<216, 42, 69, 1, 1, 85, 18, 0>>,
      <<216, 42, 69, 0, 1, 86, 18, 0>>, <<216, 42, 68, 0, 1, 85, 18>>,
      <<216, 42, 65, 0>>, <<216, 42, 64>>, <<216, 42, 5>>, <<216, 42>>,
      <<216, 43, 0>>, <<193, 0>>, <<217, 0, 42, 69, 0, 1, 85, 18, 0>>,
      <<216, 42, 91, 255, 255, 255, 255, 255, 255, 255, 255>>,
      <<216, 42, 91, 255, 255, 255, 255, 255, 255, 255, 255, 0>>,
      <<216, 42, 91, 128, 0, 0, 0, 0, 0, 0, 0, 0>>,
      <<216, 42, 91, 127, 255, 255, 255, 255, 255, 255, 255, 0>>,
      <<216, 42, 91, 127, 255, 255, 255, 255, 255, 255, 255>>,
      <<216, 42, 91, 127, 255, 255, 255, 255, 255, 255, 245, 0>>,
      <<216, 42, 91, 127, 255, 255, 255, 255, 255, 255, 244, 0>>,
      <<129, 216, 42, 91, 127, 255, 255, 255, 255, 255, 255, 255, 0>>,
      <<216, 42, 90, 0, 1, 0, 0, 0>>,
      <<251, 63, 248, 0, 0, 0, 0, 0, 0>>, <<251, 127, 240, 0, 0, 0, 0, 0, 0>>,
      <<251, 255, 240, 0, 0, 0, 0, 0, 0>>, <<251, 127, 248, 0, 0, 0, 0, 0, 0>>,
      <<251, 63, 248, 0>>, <<249, 0, 0>>, <<247>>, <<248, 32>>, <<244, 245>>,
      <<155, 255, 255, 255, 255, 255, 255, 255, 255>>,
      <<155, 0, 0, 16, 0, 0, 0, 0, 1, 0>>,
      <<159, 0>>, <<95>>, <<191>>, <<31>>,
      <<98, 195, 169>>, <<98, 195, 40>>, <<99, 237, 160, 128>>, <<66, 0>> }

RawInputs == Crafted \cup SeqsUpTo(RawBytes, MaxRawLen)

\* Where the 0x00 prefix of the first link of an encoding is: after the tag
\* header d8 2a and the header of the byte string (0 when there is no link).
LinkPrefixAt(bs) ==
    LET tags == {i \in 1..(Len(bs) - 2) : bs[i] = 216 /\ bs[i + 1] = 42}
        Least(S) == CHOOSE i \in S : \A j \in S : i <= j
    IN  IF tags = {} THEN 0
        ELSE LET i == Least(tags)
             IN  IF bs[i + 2] % 32 < 24 THEN i + 3 ELSE i + 4

(***************************************************************************)
(* The codec as a state machine: Encode is called on value (once or        *)
(* twice), Decode is called on its output, on the output less its final    *)
(* byte, on the output with a link's prefix byte changed, or on raw bytes; *)
(* DecodeFirst runs step by step; Decode returns.                          *)
(***************************************************************************)
MaxEncodeCalls == 2

CidIdle ==
    /\ c = None /\ cErr = Nil /\ text = None /\ parsed = None
    /\ bin = None /\ fromBin = None

CodecIdle ==
    /\ value = NoValue /\ encOut = <<>> /\ encErr = Nil /\ encPrev = <<>>
    /\ encCalls = 0 /\ buf = <<>> /\ src = "none" /\ d = IdleFrame
    /\ decVal = NilV /\ decErr = Nil /\ decDone = FALSE

\* A sync.Mutex nobody holds.
Free == 0
\* The goroutines that call Clock.Now, and how many calls they make in all.
Goroutines == {1, 2}
MaxNowCalls == 3
\* A goroutine that is not in Clock.Now.
\* (before: the greatest TID returned when the call started.)
IdleCall == [pc |-> "idle", now |-> U64(0), before |-> <<>>, ret |-> <<>>]
\* NewClock(id): Clock{id: id}, and no call of Now made yet.
NewClock(id) == [id |-> id, mtx |-> Free, last |-> U64(0)]
ClockIdle ==
    /\ clock = NewClock(U64(0))
    /\ call = [p \in Goroutines |-> IdleCall] /\ stamps = <<>> /\ returned = <<>>
\* The writes of one Encode that the write machine makes.
MaxWrites == 3
\* The head of an item as the format defines it: the major type and the
\* argument in the shortest of the five widths, big-endian.
ItemHead(major, arg) ==
    LET zeros == CHOOSE n \in 0..8 : /\ \A i \in 1..n : arg[i] = 0
                                     /\ (n < 8 => arg[n + 1] # 0)
        m == major * 32
    IN  IF zeros >= 7 /\ arg[8] < 24 THEN <<m + arg[8]>>
        ELSE IF zeros >= 7 THEN <<m + 24, arg[8]>>
        ELSE IF zeros >= 6 THEN <<m + 25, arg[7], arg[8]>>
        ELSE IF zeros >= 4 THEN <<m + 26, arg[5], arg[6], arg[7], arg[8]>>
        ELSE <<m + 27>> \o arg
\* No Encode under way on the write machine.
WriteIdle == enc = NewState /\ written = <<>> /\ writes = 0 /\ encRet = None

TidIdle == tidIn = None /\ tidText = None /\ tidValid = None /\ tidParsed = None

Init ==
    /\ value \in Values \cup {NoValue}
    /\ encOut = <<>> /\ encErr = Nil /\ encPrev = <<>> /\ encCalls = 0
    /\ buf = <<>> /\ src = "none" /\ d = IdleFrame
    /\ decVal = NilV /\ decErr = Nil /\ decDone = FALSE
    /\ CidIdle
    /\ TidIdle /\ ClockIdle /\ WriteIdle

\* Encode(value).
EncodeCall ==
    /\ value # NoValue /\ encCalls < MaxEncodeCalls /\ d.pc = "idle"
    /\ \E r \in Encode(value) :
         /\ encOut' = r.out
         /\ encErr' = r.err
    /\ encPrev' = encOut
    /\ encCalls' = encCalls + 1
    /\ UNCHANGED <<value, buf, src, d, decVal, decErr, decDone>>
    /\ UNCHANGED <<cidVars, tidVars, clockVars, writeVars>>

\* Decode(b) up to the loop of DecodeFirst.
CallDecode(b, from) ==
    /\ d.pc = "idle"
    /\ buf' = b
    /\ src' = from
    /\ d' = DecodeFirstCall(b)
    /\ UNCHANGED <<value, encOut, encErr, encPrev, encCalls, decVal, decErr, decDone>>
    /\ UNCHANGED <<cidVars, tidVars, clockVars, writeVars>>

Encoded == encCalls > 0 /\ encErr = Nil

DecodeEncoded == Encoded /\ CallDecode(encOut, "encoded")

DecodeTruncated ==
    Encoded /\ CallDecode(SubSeq(encOut, 1, Len(encOut) - 1), "truncated")

DecodeCorrupted ==
    /\ Encoded /\ LinkPrefixAt(encOut) # 0
    /\ \E x \in {1, 255} :
         CallDecode([encOut EXCEPT ![LinkPrefixAt(encOut)] = x], "corrupted")

DecodeRaw ==
    /\ value = NoValue
    /\ \E b \in RawInputs : CallDecode(b, "raw")

DecoderMoves(f) ==
    /\ d' = f
    /\ UNCHANGED <<value, encOut, encErr, encPrev, encCalls, buf, src,
                   decVal, decErr, decDone>>
    /\ UNCHANGED <<cidVars, tidVars, clockVars, writeVars>>

StepReadItem == d.pc = "loop" /\ d.p < Len(d.b) /\ DecoderMoves(DecodeStep(d))
StepFeed == d.pc = "feed" /\ d.stack # <<>> /\ DecoderMoves(DecodeStep(d))
StepReturn ==
    /\ \/ d.pc = "loop" /\ d.p >= Len(d.b)
       \/ d.pc = "feed" /\ d.stack = <<>>
    /\ DecoderMoves(DecodeStep(d))

\* Decode returns what it makes of DecodeFirst's result.
DecodeReturn ==
    /\ d.pc = "ret" /\ ~decDone
    /\ decVal' = DecodeResult(d).val
    /\ decErr' = DecodeResult(d).err
    /\ decDone' = TRUE
    /\ UNCHANGED <<value, encOut, encErr, encPrev, encCalls, buf, src, d>>
    /\ UNCHANGED <<cidVars, tidVars, clockVars, writeVars>>

Next ==
    \/ EncodeCall
    \/ DecodeEncoded
    \/ DecodeTruncated
    \/ DecodeCorrupted
    \/ DecodeRaw
    \/ StepReadItem
    \/ StepFeed
    \/ StepReturn
    \/ DecodeReturn

Spec == Init /\ [][Next]_vars

(***************************************************************************)
(* Package cid as a state machine: a Cid is built by Create or             *)
(* CreateEmpty; String, Parse, ToBytes and FromBytes are applied to it, or *)
(* Parse and FromBytes to crafted inputs.                                  *)
(***************************************************************************)
Codecs == {CodecRaw, CodecCbor, 112, 0, 369}

\* Texts handed to Parse: of the two lengths and of others, of and off the
\* alphabet, well-formed and not, of 59 characters with the line breaks
\* DecodeString drops, and with the byte 255 that the decoder compares with
\* byte(enc.padChar), at the places where it takes it for padding and not.
CraftedTexts ==
    { <<>>, <<98>>, <<98, 97>>,
      <<98, 97, 102, 121, 114, 101, 97, 97>>,
      <<122, 97, 102, 121, 114, 101, 97, 97>>,
      <<98, 97, 102, 121, 114, 101, 97, 49>>,
      <<98, 97, 102, 121, 114, 101, 10, 97>>,
      <<98, 97, 101, 121, 114, 101, 97, 97>>,
      <<98, 97, 102, 121, 114, 101, 97, 97, 97>>,
      <<98, 97, 102, 107, 114, 101, 97, 97>>,
      <<98, 97, 102, 121, 114, 101, 97, 98>>,
      <<98, 50, 55, 115, 108, 54, 50, 50>>,
      <<98, 97, 102, 121, 114, 101, 97, 97, 10, 10, 10, 10, 10, 10, 10, 10, 10, 10, 10, 10, 10, 10, 10, 10, 10, 10, 10, 10, 10, 10, 10, 10, 10, 10, 10, 10, 10, 10, 10, 10, 10, 10, 10, 10, 10, 10, 10, 10, 10, 10, 10, 10, 10, 10, 10, 10, 10, 10, 10>>,
      <<98, 97, 102, 121, 13, 10, 114, 101, 97, 97, 10, 10, 10, 10, 10, 10, 10, 10, 10, 10, 10, 10, 10, 10, 10, 10, 10, 10, 10, 10, 10, 10, 10, 10, 10, 10, 10, 10, 10, 10, 10, 10, 10, 10, 10, 10, 10, 10, 10, 10, 10, 10, 10, 10, 10, 10, 10, 10, 10>>,
      <<98, 97, 102, 121, 114, 101, 97, 97, 10, 10, 10, 10, 10, 10, 10, 10, 10, 10, 10, 10, 10, 10, 10, 10, 10, 10, 10, 10, 10, 10, 10, 10, 10, 10, 10, 10, 10, 10, 10, 10, 10, 10, 10, 10, 10, 10, 10, 10, 10, 10, 10, 10, 10, 10, 10, 10, 10, 10, 97>>,
      <<98, 97, 102, 121, 114, 101, 97, 97, 10, 10, 10, 10, 10, 10, 10, 10, 10, 10, 10, 10, 10, 10, 10, 10, 10, 10, 10, 10, 10, 10, 10, 10, 10, 10, 10, 10, 10, 10, 10, 10, 10, 10, 10, 10, 10, 10, 10, 10, 10, 10, 10, 10, 10, 10, 10, 10, 10, 10, 32>>,
      <<98, 97, 102, 121, 114, 101, 97, 97, 255, 10, 10, 10, 10, 10, 10, 10, 10, 10, 10, 10, 10, 10, 10, 10, 10, 10, 10, 10, 10, 10, 10, 10, 10, 10, 10, 10, 10, 10, 10, 10, 10, 10, 10, 10, 10, 10, 10, 10, 10, 10, 10, 10, 10, 10, 10, 10, 10, 10, 10>>,
      <<98, 97, 102, 121, 114, 101, 97, 97, 255, 122, 122, 33, 10, 10, 10, 10, 10, 10, 10, 10, 10, 10, 10, 10, 10, 10, 10, 10, 10, 10, 10, 10, 10, 10, 10, 10, 10, 10, 10, 10, 10, 10, 10, 10, 10, 10, 10, 10, 10, 10, 10, 10, 10, 10, 10, 10, 10, 10, 10>>,
      <<98, 97, 102, 121, 114, 101, 105, 104, 102, 102, 120, 53, 97, 50, 101, 55, 107, 53, 117, 119, 114, 109, 109, 103, 111, 102, 98, 118, 122, 117, 106, 99, 53, 99, 109, 119, 53, 104, 52, 101, 115, 112, 111, 117, 119, 117, 120, 116, 51, 108, 105, 255, 255, 255, 255, 255, 255, 97, 97>>,
      <<98, 97, 102, 121, 114, 101, 97, 255>>,
      <<98, 97, 102, 121, 114, 101, 255, 255, 255, 10, 10, 10, 10, 10, 10, 10, 10, 10, 10, 10, 10, 10, 10, 10, 10, 10, 10, 10, 10, 10, 10, 10, 10, 10, 10, 10, 10, 10, 10, 10, 10, 10, 10, 10, 10, 10, 10, 10, 10, 10, 10, 10, 10, 10, 10, 10, 10, 10, 10>>,
      <<98, 97, 102, 121, 114, 101, 97, 97, 255, 97, 97, 97, 97, 97, 97, 97, 97, 97, 97, 97, 97, 97, 97, 97, 97, 97, 97, 97, 97, 97, 97, 97, 97, 97, 97, 97, 97, 97, 97, 97, 97, 97, 97, 97, 97, 97, 97, 97, 97, 97, 97, 97, 97, 97, 97, 97, 97, 97, 97>> }

CraftedBins ==
    { <<>>, <<0, 1, 113, 18, 0>>, <<1, 1, 113, 18, 0>>, <<0, 1, 113, 18, 32>>,
      <<0, 2, 113, 18, 0>>, <<0, 1, 113, 19, 0>>, <<1, 113, 18, 0>> }

CidInit == CodecIdle /\ CidIdle /\ TidIdle /\ ClockIdle /\ WriteIdle

DoCreate ==
    /\ c = None
    /\ \E codec \in Codecs, content \in Contents :
         /\ c' = Some(CidCreate(codec, content).cid)
         /\ cErr' = CidCreate(codec, content).err
    /\ UNCHANGED <<text, parsed, bin, fromBin>>
    /\ UNCHANGED <<codecVars, tidVars, clockVars, writeVars>>

DoCreateEmpty ==
    /\ c = None
    /\ \E codec \in Codecs :
         /\ c' = Some(CidCreateEmpty(codec).cid)
         /\ cErr' = CidCreateEmpty(codec).err
    /\ UNCHANGED <<text, parsed, bin, fromBin>>
    /\ UNCHANGED <<codecVars, tidVars, clockVars, writeVars>>

\* text := c.String()
DoString ==
    /\ c # None /\ cErr = Nil /\ text = None
    /\ text' = Some(CidString(The(c)))
    /\ UNCHANGED <<c, cErr, parsed, bin, fromBin>>
    /\ UNCHANGED <<codecVars, tidVars, clockVars, writeVars>>

\* A text that no String() call gave.
TakeText ==
    /\ c = None /\ text = None
    /\ \E t \in CraftedTexts : text' = Some(t)
    /\ UNCHANGED <<c, cErr, parsed, bin, fromBin>>
    /\ UNCHANGED <<codecVars, tidVars, clockVars, writeVars>>

DoParse ==
    /\ text # None /\ parsed = None
    /\ parsed' = Some(CidParse(The(text)))
    /\ UNCHANGED <<c, cErr, text, bin, fromBin>>
    /\ UNCHANGED <<codecVars, tidVars, clockVars, writeVars>>

\* bin := c.ToBytes()
DoToBytes ==
    /\ c # None /\ cErr = Nil /\ bin = None
    /\ bin' = Some(CidToBytes(The(c)))
    /\ UNCHANGED <<c, cErr, text, parsed, fromBin>>
    /\ UNCHANGED <<codecVars, tidVars, clockVars, writeVars>>

\* Bytes that no ToBytes() call gave: crafted ones, or the 0x00 marker
\* followed by the bytes of c.
TakeBin ==
    /\ bin = None
    /\ \/ c = None /\ \E b \in CraftedBins : bin' = Some(b)
       \/ c # None /\ cErr = Nil /\ bin' = Some(<<0>> \o The(c).Bytes)
    /\ UNCHANGED <<c, cErr, text, parsed, fromBin>>
    /\ UNCHANGED <<codecVars, tidVars, clockVars, writeVars>>

DoFromBytes ==
    /\ bin # None /\ fromBin = None
    /\ fromBin' = Some(CidFromBytes(The(bin)))
    /\ UNCHANGED <<c, cErr, text, parsed, bin>>
    /\ UNCHANGED <<codecVars, tidVars, clockVars, writeVars>>

CidNext ==
    \/ DoCreate
    \/ DoCreateEmpty
    \/ DoString
    \/ TakeText
    \/ DoParse
    \/ DoToBytes
    \/ TakeBin
    \/ DoFromBytes

CidSpec == CidInit /\ [][CidNext]_vars

(***************************************************************************)
(* Package tid.  An int64, a uint64 and a uint (64 bits, as on every       *)
(* 64-bit platform) are their 8 big-endian bytes; a TID is the sequence of *)
(* its characters.                                                         *)
(***************************************************************************)
ErrTidLength == "invalid tid length"
ErrTidFormat == "invalid tid format"

\* const b32Sorted = "234567abcdefghijklmnopqrstuvwxyz", as bytes.
b32Sorted == [i \in 1..32 |-> IF i <= 6 THEN 49 + i ELSE 90 + i]

\* strings.IndexByte(b32Sorted, ch): -1 when ch is not of the alphabet.
IndexByte(ch) ==
    IF ch >= 50 /\ ch <= 55 THEN ch - 50
    ELSE IF ch >= 97 /\ ch <= 122 THEN ch - 91
    ELSE -1

\* The 8 bytes F(1), ..., F(8).
Bytes8(f) == <<f[1], f[2], f[3], f[4], f[5], f[6], f[7], f[8]>>

\* v >> 5 and v << 5 on 64 bits.
Shr5(v) ==
    LET F == [i \in 1..8 |-> (v[i] \div 32) + (IF i > 1 THEN (v[i - 1] % 32) * 8 ELSE 0)]
    IN  Bytes8(F)
Shl5(v) ==
    LET F == [i \in 1..8 |-> ((v[i] * 32) % 256) + (IF i < 8 THEN v[i + 1] \div 8 ELSE 0)]
    IN  Bytes8(F)
\* v << 10 on 64 bits: one byte and two bits.
Shl10(v) ==
    LET F == [i \in 1..8 |-> (IF i < 8 THEN (v[i + 1] * 4) % 256 ELSE 0)
                    + (IF i < 7 THEN v[i + 2] \div 64 ELSE 0)]
    IN  Bytes8(F)
\* x & 0x1F_FFFF_FFFF_FFFF, x & 0x3FF and x & 0x7FFF_FFFF_FFFF_FFFF.
And53(x) == <<0, x[2] % 32, x[3], x[4], x[5], x[6], x[7], x[8]>>
And10(x) == <<0, 0, 0, 0, 0, 0, x[7] % 4, x[8]>>
And63(x) == <<x[1] % 128, x[2], x[3], x[4], x[5], x[6], x[7], x[8]>>
\* a | b for a and b with no bit in common.
Or(a, b) == LET F == [i \in 1..8 |-> a[i] + b[i]] IN Bytes8(F)
\* (v << 5) | uint(c & 0x1F)
Shl5Or(v, c5) == [Shl5(v) EXCEPT ![8] = @ + (c5 % 32)]

\* b32Encode: 13 characters, the lowest 5 bits last.
RECURSIVE b32EncodeLoop(_, _, _)
b32EncodeLoop(v, s, n) ==
    IF n = 0 THEN s
    ELSE b32EncodeLoop(Shr5(v), <<b32Sorted[(v[8] % 32) + 1]>> \o s, n - 1)
b32Encode(v) == b32EncodeLoop(And63(v), <<>>, 13)

\* b32Decode: 0 as soon as a character is not of the alphabet.
RECURSIVE b32DecodeLoop(_, _)
b32DecodeLoop(s, v) ==
    IF s = <<>> THEN v
    ELSE IF IndexByte(Head(s)) < 0 THEN U64(0)
    ELSE b32DecodeLoop(Tail(s), Shl5Or(v, IndexByte(Head(s))))
b32Decode(s) == b32DecodeLoop(s, U64(0))

\* tidRegex: ^[234567abcdefghij][234567abcdefghijklmnopqrstuvwxyz]{12}$
tidRegexMatch(s) ==
    /\ Len(s) = 13
    /\ IndexByte(s[1]) >= 0 /\ IndexByte(s[1]) <= 15
    /\ \A i \in 2..13 : IndexByte(s[i]) >= 0

TidCreate(timestamp, clockId) == b32Encode(Or(Shl10(And53(timestamp)), And10(clockId)))

TidValidate(s) ==
    IF Len(s) # 13 THEN ErrTidLength
    ELSE IF ~tidRegexMatch(s) THEN ErrTidFormat
    ELSE Nil

\* Parse with the two parts cut one character early (s[0:10], s[10:13]).
TidParseCutEarly(s) ==
    IF TidValidate(s) # Nil
    THEN [timestamp |-> U64(0), clockId |-> U64(0), err |-> TidValidate(s)]
    ELSE [timestamp |-> b32Decode(SubSeq(s, 1, 10)),
          clockId |-> b32Decode(SubSeq(s, 11, 13)), err |-> Nil]

TidParse(s) ==
    IF TidValidate(s) # Nil
    THEN [timestamp |-> U64(0), clockId |-> U64(0), err |-> TidValidate(s)]
    ELSE [timestamp |-> b32Decode(SubSeq(s, 1, 11)),
          clockId |-> b32Decode(SubSeq(s, 12, 13)), err |-> Nil]

\* now <= c.last on int64: the order of the patterns with the sign bit flipped.
FlipSign(x) == [x EXCEPT ![1] = (@ + 128) % 256]
Int64LessEq(a, b) == Compare(FlipSign(a), FlipSign(b)) <= 0

\* x + 1 modulo 2^64 (Go's int64 wraps silently).
RECURSIVE IncBytes(_)
IncBytes(bs) ==
    IF bs = <<>> THEN <<>>
    ELSE LET n == Len(bs)
             front == SubSeq(bs, 1, n - 1)
         IN  IF bs[n] < 255 THEN front \o <<bs[n] + 1>>
             ELSE IncBytes(front) \o <<0>>

\* Clock.Now with the lock held: if now <= c.last { now = c.last + 1 }
NextStamp(now, last) ==
    IF Int64LessEq(now, last) THEN IncBytes(last) ELSE now

(***************************************************************************)
(* The tid machine: Create, Validate and Parse on chosen inputs.           *)
(***************************************************************************)
MaxTimestamp == <<0, 31, 255, 255, 255, 255, 255, 255>>    \* 2^53 - 1
MaxInt64Bits == <<127, 255, 255, 255, 255, 255, 255, 255>>
MinusOne == Complement(U64(0))

Timestamps ==
    { U64(0), U64(1), U64(31), U64(32), U64(1234567890),
      <<0, 18, 52, 86, 120, 154, 188, 222>>,
      <<0, 16, 0, 0, 0, 0, 0, 0>>,
      DecBytes(MaxTimestamp), MaxTimestamp, IncBytes(MaxTimestamp),
      MaxInt64Bits, MinusOne }
ClockIds == {U64(0), U64(1), U64(31), U64(32), U64(682), U64(1023), U64(1024), U64(1025)}

CraftedTids ==
    { <<>>,
      <<50, 50, 50, 50, 51, 54, 116, 103, 50, 113, 109, 50, 50>>,
      <<50, 50, 50, 50, 51, 54, 116, 103, 50, 113, 109, 50>>,
      <<50, 50, 50, 50, 51, 54, 116, 103, 50, 113, 109, 50, 50, 50>>,
      <<50, 50, 50, 50, 51, 54, 116, 103, 50, 113, 109, 50, 10>>,
      <<107, 50, 50, 50, 51, 54, 116, 103, 50, 113, 109, 50, 50>>,
      <<106, 122, 122, 122, 122, 122, 122, 122, 122, 122, 122, 122, 122>>,
      <<50, 50, 50, 50, 51, 54, 116, 103, 50, 113, 109, 50, 49>>,
      <<50, 50, 50, 50, 51, 54, 84, 103, 50, 113, 109, 50, 50>>,
      <<49, 50, 50, 50, 51, 54, 116, 103, 50, 113, 109, 50, 50>> }

TidInit == CodecIdle /\ CidIdle /\ TidIdle /\ ClockIdle /\ WriteIdle

\* tidText := Create(timestamp, clockId)
TidDoCreate ==
    /\ tidIn = None /\ tidText = None
    /\ \E timestamp \in Timestamps, clockId \in ClockIds :
         /\ tidIn' = Some([timestamp |-> timestamp, clockId |-> clockId])
         /\ tidText' = Some(TidCreate(timestamp, clockId))
    /\ UNCHANGED <<tidValid, tidParsed>>
    /\ UNCHANGED <<codecVars, cidVars, clockVars, writeVars>>

\* A text that no Create call gave.
TidTakeText ==
    /\ tidIn = None /\ tidText = None
    /\ \E s \in CraftedTids : tidText' = Some(s)
    /\ UNCHANGED <<tidIn, tidValid, tidParsed>>
    /\ UNCHANGED <<codecVars, cidVars, clockVars, writeVars>>

TidDoValidate ==
    /\ tidText # None /\ tidValid = None
    /\ tidValid' = Some(TidValidate(The(tidText)))
    /\ UNCHANGED <<tidIn, tidText, tidParsed>>
    /\ UNCHANGED <<codecVars, cidVars, clockVars, writeVars>>

TidDoParse ==
    /\ tidText # None /\ tidParsed = None
    /\ tidParsed' = Some(TidParse(The(tidText)))
    /\ UNCHANGED <<tidIn, tidText, tidValid>>
    /\ UNCHANGED <<codecVars, cidVars, clockVars, writeVars>>

TidNext ==
    \/ TidDoCreate
    \/ TidTakeText
    \/ TidDoValidate
    \/ TidDoParse

TidSpec == TidInit /\ [][TidNext]_vars

(***************************************************************************)
(* The clock machine: goroutines call Now on one Clock.  A call reads the  *)
(* time, takes the lock, stores the stamp, gives the lock back and makes   *)
(* the TID; the time source may give any reading at any time.              *)
(***************************************************************************)
\* What time.Now().UTC().UnixMicro() reads, an int64: the microsecond before
\* 1970 and the first ones of it, 2023-11-14 22:13:20 UTC and the microsecond
\* after it, and the microseconds around 2^53 (2255-06-05 23:47:34 UTC),
\* where the 53 bits that Create keeps of a timestamp are full.  The
\* goroutines read them in any order, so the time source stands still,
\* advances or goes back.
Reading2023 == <<0, 6, 10, 36, 24, 30, 64, 0>>
TimeReadings ==
    { MinusOne, U64(0), U64(7), U64(8), Reading2023, IncBytes(Reading2023),
      DecBytes(MaxTimestamp), MaxTimestamp, IncBytes(MaxTimestamp) }

ClockInit ==
    /\ CodecIdle /\ CidIdle /\ TidIdle /\ WriteIdle
    /\ \E id \in {U64(0), U64(1023)} : clock = NewClock(id)
    /\ call = [p \in Goroutines |-> IdleCall] /\ stamps = <<>> /\ returned = <<>>

\* Calls of Now made so far.
NowCalls ==
    Len(stamps) + Cardinality({p \in Goroutines : call[p].pc \in {"lock", "store"}})

ClockMoves == UNCHANGED <<codecVars, cidVars, tidVars, writeVars>>

\* now := time.Now().UTC().UnixMicro()
NowRead(p) ==
    /\ call[p].pc \in {"idle", "done"} /\ NowCalls < MaxNowCalls
    /\ \E reading \in TimeReadings :
         call' = [call EXCEPT ![p] = [pc |-> "lock", now |-> reading,
                                      before |-> returned, ret |-> <<>>]]
    /\ UNCHANGED <<clock, stamps, returned>>
    /\ ClockMoves

\* c.mtx.Lock()
NowLock(p) ==
    /\ call[p].pc = "lock" /\ clock.mtx = Free
    /\ clock' = [clock EXCEPT !.mtx = p]
    /\ call' = [call EXCEPT ![p].pc = "store"]
    /\ UNCHANGED <<stamps, returned>>
    /\ ClockMoves

\* if now <= c.last { now = c.last + 1 }; c.last = now
NowStore(p) ==
    /\ call[p].pc = "store"
    /\ call' = [call EXCEPT ![p].pc = "unlock",
                            ![p].now = NextStamp(call[p].now, clock.last)]
    /\ clock' = [clock EXCEPT !.last = NextStamp(call[p].now, clock.last)]
    /\ stamps' = Append(stamps, NextStamp(call[p].now, clock.last))
    /\ UNCHANGED returned
    /\ ClockMoves

\* c.mtx.Unlock()
NowUnlock(p) ==
    /\ call[p].pc = "unlock"
    /\ clock' = [clock EXCEPT !.mtx = Free]
    /\ call' = [call EXCEPT ![p].pc = "create"]
    /\ UNCHANGED <<stamps, returned>>
    /\ ClockMoves

\* return Create(now, c.id)
NowReturn(p) ==
    /\ call[p].pc = "create"
    /\ call' = [call EXCEPT ![p].pc = "done",
                            ![p].ret = TidCreate(call[p].now, clock.id)]
    /\ returned' = IF Compare(returned, TidCreate(call[p].now, clock.id)) < 0
                   THEN TidCreate(call[p].now, clock.id) ELSE returned
    /\ UNCHANGED <<clock, stamps>>
    /\ ClockMoves

ClockNext ==
    \E p \in Goroutines :
        \/ NowRead(p)
        \/ NowLock(p)
        \/ NowStore(p)
        \/ NowUnlock(p)
        \/ NowReturn(p)

ClockSpec == ClockInit /\ [][ClockNext]_vars

(***************************************************************************)
(* The encoder's writes, one at a time, on the State Encode makes: the     *)
(* methods writeAny calls, in any order, and Encode's return.              *)
(***************************************************************************)
\* A string or byte string of n bytes ('a', 'a', ...).
Fill(n) == [i \in 1..n |-> 97]

\* The arguments of the headers written: one of each width.
HeaderArgs == {U64(1), U64(24), U64(256), U64(65536), U64x100000000}
\* The lengths of the strings written: short ones, the ones that take the
\* cursor next to the end of the first buffer, and one longer than it.
StringLens == {0, 1, 1011, 1012, 1100}
BytesLens == {2, 1013}
Floats == {<<63, 248, 0, 0, 0, 0, 0, 0>>, <<0, 0, 0, 0, 0, 0, 0, 0>>}

WriteInit ==
    /\ CodecIdle /\ CidIdle /\ TidIdle /\ ClockIdle /\ WriteIdle

\* One more write of Encode's writeAny: `next` is the State after it and
\* `bytes` what the write is to store.
DoWrite(next, bytes) ==
    /\ enc.err = Nil /\ encRet = None /\ writes < MaxWrites
    /\ enc' = next
    /\ written' = written \o bytes
    /\ writes' = writes + 1
    /\ UNCHANGED <<encRet, codecVars, cidVars, tidVars, clockVars>>

DoWriteTypeArgument ==
    \E arg \in HeaderArgs :
        DoWrite(WriteTypeArgument(enc, 5, arg), ItemHead(5, arg))

DoWriteString ==
    \E n \in StringLens :
        DoWrite(WriteString(enc, Fill(n)), ItemHead(3, U64(n)) \o Fill(n))

DoWriteBytes ==
    \E n \in BytesLens :
        DoWrite(WriteBytes(enc, Fill(n), 2), ItemHead(2, U64(n)) \o Fill(n))

DoWriteCid ==
    \E link \in {LinkCbor.v, LinkEmpty.v} :
        DoWrite(WriteCid(enc, link),
                <<216, 42>> \o ItemHead(2, U64(Len(link) + 1)) \o <<0>> \o link)

DoWriteFloat64 ==
    \E bits \in Floats :
        DoWrite(WriteFloat64(enc, bits), <<251>> \o bits)

\* return s.b[:s.p], nil
DoReturn ==
    /\ enc.err = Nil /\ encRet = None
    /\ encRet' = Some(SubSeq(Buffer(enc), 1, enc.p))
    /\ UNCHANGED <<enc, written, writes, codecVars, cidVars, tidVars, clockVars>>

WriteNext ==
    \/ DoWriteTypeArgument
    \/ DoWriteString
    \/ DoWriteBytes
    \/ DoWriteCid
    \/ DoWriteFloat64
    \/ DoReturn

WriteSpec == WriteInit /\ [][WriteNext]_vars

(***************************************************************************)
(* What the claims are stated with.                                        *)
(***************************************************************************)
\* The canonical order of map keys: shorter first, then byte-wise.
KeyLess(a, b) == Len(a) < Len(b) \/ (Len(a) = Len(b) /\ Compare(a, b) < 0)

\* The keys of S in canonical order.
SortedKeys(S) ==
    CHOOSE p \in RangeOrders(S) :
        \A i \in DOMAIN p : \A j \in DOMAIN p : i < j => KeyLess(p[i], p[j])

\* The bytes writeTypeArgument stores for a header.
HeaderBytes(info, arg) == WriteTypeArgument(NewState, info, arg).out

RECURSIVE Concat(_)
Concat(seqs) == IF seqs = <<>> THEN <<>> ELSE Head(seqs) \o Concat(Tail(seqs))

\* The canonical encoding of a value every part of which writeAny supports:
\* the bytes writeAny writes, the keys of every map in canonical order.
RECURSIVE CanonicalBytes(_)
CanonicalBytes(x) ==
    CASE x.t = "array" ->
           HeaderBytes(4, U64(Len(x.v)))
               \o Concat([i \in 1..Len(x.v) |-> CanonicalBytes(x.v[i])])
      [] x.t = "map" ->
           LET keys == SortedKeys(DOMAIN x.v)
           IN  HeaderBytes(5, U64(Len(keys)))
                   \o Concat([i \in 1..Len(keys) |->
                                 WriteString(NewState, keys[i]).out
                                     \o CanonicalBytes(x.v[keys[i]])])
      [] OTHER -> (CHOOSE r \in WriteAny(NewState, x) : TRUE).out

\* A value as the value model sees it: an integer is its mathematical value,
\* whichever Go type carries it (a non-negative int64 is the same uint64).
RECURSIVE Normal(_)
Normal(x) ==
    CASE x.t = "int64" -> IF IsNegInt(x.v) THEN x ELSE Uint64V(x.v)
      [] x.t = "array" -> ArrayV([i \in 1..Len(x.v) |-> Normal(x.v[i])])
      [] x.t = "map" -> MapV([k \in DOMAIN x.v |-> Normal(x.v[k])])
      [] OTHER -> x

\* Errors that say the input ended too early.
BoundsErrors == {ErrEOF, ErrEOFBytes, ErrEmpty}

\* DecodeFirst is over: it returned or it panicked.
DecodeFirstOver == d.pc \in {"ret", "panic"}

\* The bytes of the header read last by the loop of DecodeFirst.
HeaderLen(info) ==
    CASE info = 24 -> 2 [] info = 25 -> 3 [] info = 26 -> 5 [] info = 27 -> 9
      [] OTHER -> 1
LastHeader == SubSeq(d.b, d.start + 1, d.start + HeaderLen(d.info))

(***************************************************************************)
(* C1.  Truncation: decoding a valid encoding less its final byte returns  *)
(* a bounds error; it never succeeds, panics or reports another error.     *)
(***************************************************************************)
C1_TruncatedInputIsBoundsError ==
    (/\ src = "truncated"
     /\ DecodeFirstOver
     /\ encOut = CanonicalBytes(value))
        => (d.pc = "ret" /\ d.err \in BoundsErrors /\ d.value = NilV)

(***************************************************************************)
(* C2.  Determinism: Encode writes the keys of every map in canonical      *)
(* order, so two calls on the same map return the same bytes.              *)
(***************************************************************************)
C2_EncodeIsCanonical ==
    /\ Encoded => encOut = CanonicalBytes(value)
    /\ (Encoded /\ encCalls >= 2) => encPrev = encOut

(***************************************************************************)
(* C3.  Round trip: Decode(Encode(v)) succeeds and returns v, for every v  *)
(* of the value model.                                                     *)
(***************************************************************************)
C3_RoundTrip ==
    (src = "encoded" /\ decDone) => (decErr = Nil /\ decVal = Normal(value))

\* The same for the canonical output of Encode alone: the part of C3 the
\* order of map keys does not decide.
RoundTripOfCanonical ==
    (src = "encoded" /\ decDone /\ encOut = CanonicalBytes(value))
        => (decErr = Nil /\ decVal = Normal(value))

(***************************************************************************)
(* C4.  Minimality: the decoder accepts the header of an item of major     *)
(* type 0-6 only if its bytes are the ones writeTypeArgument writes for    *)
(* that major type and argument.                                           *)
(***************************************************************************)
C4_AcceptedHeaderIsMinimal ==
    (d.pc \in {"loop", "feed"} /\ d.p > 0 /\ d.majorType < 7)
        => LastHeader = HeaderBytes(d.majorType, d.arg)

(***************************************************************************)
(* C5.  Canonical map order on decode: a key that is not strictly greater  *)
(* than the previous key of its map (shorter, smaller or equal) makes      *)
(* DecodeFirst return an error, and a map that is closed has exactly its   *)
(* declared number of keys.                                                *)
(***************************************************************************)
KeyFed ==
    /\ d.pc = "feed" /\ d.stack # <<>>
    /\ d.stack[1].isMap /\ d.stack[1].currMapKey = NilRef
    /\ d.currVal.t = "string"
MapCloses ==
    /\ d.pc = "feed" /\ d.stack # <<>> /\ d.stack[1].isMap
    /\ d'.pc = "feed" /\ Len(d'.stack) < Len(d.stack)

KeyOrderStep ==
    (KeyFed /\ d.stack[1].prevMapKeyBytes # NilRef /\ d' # d)
        => IF KeyLess(d.stack[1].prevMapKeyBytes[1], d.currVal.v)
           THEN d'.pc # "ret"
           ELSE d'.pc = "ret" /\ d'.err # Nil /\ d'.value = NilV
MapCloseStep ==
    MapCloses => /\ d'.currVal.t = "map"
                 /\ U64(Cardinality(DOMAIN d'.currVal.v)) = d.stack[1].declared

C5_MapKeysOrderedAndCounted == [][KeyOrderStep /\ MapCloseStep]_vars

\* The order part of C5 alone.
MapKeysOrdered == [][KeyOrderStep]_vars

(***************************************************************************)
(* C6.  DecodeFirst consumes exactly one complete item (no container is    *)
(* left open, the value is the item's) and returns the bytes after it;     *)
(* Decode fails exactly when DecodeFirst fails or bytes remain.            *)
(***************************************************************************)
C6_ExactlyOneItem ==
    /\ (d.pc = "ret" /\ d.err = Nil)
           => /\ d.stack = <<>>
              /\ d.value.t # "ptr"
              /\ d.p > 0
              /\ d.remainder = SubSeq(buf, d.p + 1, Len(buf))
    /\ decDone => (decErr # Nil <=> (d.err # Nil \/ d.remainder # <<>>))

(***************************************************************************)
(* C7.  No partial results: Encode, DecodeFirst and Decode return a nil    *)
(* value whenever they return an error.                                    *)
(***************************************************************************)
C7_NoValueWithError ==
    /\ (encCalls > 0 /\ encErr # Nil) => encOut = <<>>
    /\ (d.pc = "ret" /\ d.err # Nil) => d.value = NilV
    /\ (decDone /\ decErr # Nil) => decVal = NilV

(***************************************************************************)
(* C8.  Link round trip: a map that holds links to CIDs built by Create or *)
(* CreateEmpty decodes from its encoding with the same link bytes, and     *)
(* does not decode once the 0x00 prefix of a link is changed.              *)
(***************************************************************************)
LinkKeys(x) == IF x.t = "map" THEN {k \in DOMAIN x.v : x.v[k].t = "link"} ELSE {}

C8_LinkRoundTrip ==
    /\ (src = "encoded" /\ decDone /\ LinkKeys(value) # {})
           => /\ decErr = Nil
              /\ decVal.t = "map"
              /\ \A k \in LinkKeys(value) :
                     k \in DOMAIN decVal.v /\ decVal.v[k] = value.v[k]
    /\ (src = "corrupted" /\ decDone) => decErr # Nil

\* The same for the canonical output of Encode alone.
LinkRoundTripOfCanonical ==
    /\ (src = "encoded" /\ decDone /\ LinkKeys(value) # {}
            /\ encOut = CanonicalBytes(value))
           => /\ decErr = Nil
              /\ \A k \in LinkKeys(value) : decVal.v[k] = value.v[k]
    /\ (src = "corrupted" /\ decDone) => decErr # Nil

(***************************************************************************)
(* C9.  CID text round trip: Parse(c.String()) is c, without error, for    *)
(* every c built by Create or CreateEmpty, and c.String() has 59           *)
(* characters for a CID of 36 bytes and 8 for one of 4.                    *)
(***************************************************************************)
Built == c # None /\ cErr = Nil
TextIsString == Built /\ text = Some(CidString(The(c)))

C9_CidTextRoundTrip ==
    /\ TextIsString =>
           /\ Len(The(c).Bytes) = 36 => Len(The(text)) = 59
           /\ Len(The(c).Bytes) = 4 => Len(The(text)) = 8
    /\ (TextIsString /\ parsed # None)
           => The(parsed) = [cid |-> The(c), err |-> Nil]

C9_Witness ==
    /\ TextIsString /\ parsed # None
    /\ Len(The(c).Bytes) = 36 /\ The(c).Codec = CodecCbor

(***************************************************************************)
(* C10.  CID binary round trip: FromBytes(c.ToBytes()) is c, without       *)
(* error; c.ToBytes() is the 5 or 37 bytes that start with the 0x00        *)
(* marker.                                                                 *)
(***************************************************************************)
BinIsToBytes == Built /\ bin = Some(CidToBytes(The(c)))

C10_CidBinaryRoundTrip ==
    /\ BinIsToBytes => (Len(The(bin)) \in {5, 37} /\ The(bin)[1] = 0)
    /\ (BinIsToBytes /\ fromBin # None)
           => The(fromBin) = [cid |-> The(c), err |-> Nil]

\* FromBytes does accept the marker followed by the bytes of c.
FromBytesOfMarked ==
    (Built /\ bin = Some(<<0>> \o The(c).Bytes) /\ fromBin # None)
        => The(fromBin) = [cid |-> The(c), err |-> Nil]

(***************************************************************************)
(* C11.  CID text form: Cid.String writes 'b' and the unpadded base32 of   *)
(* the bytes of the CID under the alphabet, and Parse accepts a text only  *)
(* if it starts with 'b', has 8 or 59 characters and decodes under the     *)
(* alphabet to version 1, a codec of {0x55, 0x71}, hash type 0x12, a       *)
(* digest length of {0, 32} and no byte more.  The claim names the         *)
(* alphabet "234567abcdefghijklmnopqrstuvwxyz"; the alphabet of the code   *)
(* is "abcdefghijklmnopqrstuvwxyz234567".                                  *)
(***************************************************************************)
\* The two alphabets, as bytes: value v is the character at v + 1.
SortedAlphabet == [i \in 1..32 |-> IF i <= 6 THEN 49 + i ELSE 90 + i]
Rfc4648Alphabet == [i \in 1..32 |-> IF i <= 26 THEN 96 + i ELSE 23 + i]

\* Base32 by its definition: the bytes as one string of bits, most
\* significant first, cut in groups of 5, the last one filled with zeros.
BitOfBytes(bs, k) ==
    IF k < 8 * Len(bs) THEN (bs[(k \div 8) + 1] \div (2 ^ (7 - (k % 8)))) % 2 ELSE 0
Base32Of(bs, alpha) ==
    [i \in 1..((8 * Len(bs) + 4) \div 5) |->
        alpha[1 + 16 * BitOfBytes(bs, 5 * (i - 1)) + 8 * BitOfBytes(bs, 5 * (i - 1) + 1)
                + 4 * BitOfBytes(bs, 5 * (i - 1) + 2) + 2 * BitOfBytes(bs, 5 * (i - 1) + 3)
                + BitOfBytes(bs, 5 * (i - 1) + 4)]]

InAlphabet(t, alpha) == \A i \in 1..Len(t) : \E v \in 1..32 : alpha[v] = t[i]
ValueOf(ch, alpha) == (CHOOSE v \in 1..32 : alpha[v] = ch) - 1
BitOfText(t, alpha, k) == (ValueOf(t[(k \div 5) + 1], alpha) \div (2 ^ (4 - (k % 5)))) % 2
\* The whole bytes a text of the alphabet holds.
BytesOf(t, alpha) ==
    [i \in 1..((5 * Len(t)) \div 8) |->
        128 * BitOfText(t, alpha, 8 * (i - 1)) + 64 * BitOfText(t, alpha, 8 * (i - 1) + 1)
          + 32 * BitOfText(t, alpha, 8 * (i - 1) + 2) + 16 * BitOfText(t, alpha, 8 * (i - 1) + 3)
          + 8 * BitOfText(t, alpha, 8 * (i - 1) + 4) + 4 * BitOfText(t, alpha, 8 * (i - 1) + 5)
          + 2 * BitOfText(t, alpha, 8 * (i - 1) + 6) + BitOfText(t, alpha, 8 * (i - 1) + 7)]

WellFormedCidBytes(bs) ==
    /\ Len(bs) >= 4
    /\ bs[1] = 1 /\ bs[2] \in {85, 113} /\ bs[3] = 18 /\ bs[4] \in {0, 32}
    /\ Len(bs) = 4 + bs[4]

Accepted == text # None /\ parsed # None /\ The(parsed).err = Nil

TextFormUnder(alpha) ==
    /\ TextIsString => The(text) = <<98>> \o Base32Of(The(c).Bytes, alpha)
    /\ Accepted =>
           /\ Len(The(text)) \in {8, 59}
           /\ The(text)[1] = 98
           /\ InAlphabet(Tail(The(text)), alpha)
           /\ WellFormedCidBytes(BytesOf(Tail(The(text)), alpha))
           /\ The(parsed).cid.Bytes = BytesOf(Tail(The(text)), alpha)

TextFormRfc4648Strict == TextFormUnder(Rfc4648Alphabet)

\* A text less its CR and LF characters.
IsLineBreak(ch) == ch = 10 \/ ch = 13
RECURSIVE NoBreaks(_)
NoBreaks(t) ==
    IF t = <<>> THEN <<>>
    ELSE IF IsLineBreak(t[1]) THEN NoBreaks(Tail(t))
    ELSE <<t[1]>> \o NoBreaks(Tail(t))

\* The same with the line breaks left out: it fails of a text where the
\* byte 255 follows the 7 characters of a CID of 4 bytes.
TextFormRfc4648LessLineBreaks ==
    /\ TextIsString => The(text) = <<98>> \o Base32Of(The(c).Bytes, Rfc4648Alphabet)
    /\ Accepted =>
           LET rest == NoBreaks(Tail(The(text)))
           IN  /\ Len(The(text)) \in {8, 59}
               /\ The(text)[1] = 98
               /\ InAlphabet(rest, Rfc4648Alphabet)
               /\ WellFormedCidBytes(BytesOf(rest, Rfc4648Alphabet))
               /\ The(parsed).cid.Bytes = BytesOf(rest, Rfc4648Alphabet)

\* A text up to its first byte 255, the whole text when it has none.
RECURSIVE UpToPad(_)
UpToPad(t) ==
    IF t = <<>> \/ t[1] = 255 THEN <<>>
    ELSE <<t[1]>> \o UpToPad(Tail(t))

\* What Parse decodes of a text: what follows the 'b', less its CR and LF
\* characters, up to the first byte 255.
Decoded(t) == UpToPad(NoBreaks(Tail(t)))

LineBreakTextAccepted ==
    /\ Accepted /\ Len(The(text)) = 59
    /\ \E i \in 1..59 : IsLineBreak(The(text)[i])
    /\ Len(The(parsed).cid.Bytes) = 4

\* A text with the byte 255 and characters off the alphabet after it was
\* accepted as the CID of 4 bytes.
PadByteTextAccepted ==
    /\ Accepted /\ Len(The(text)) = 59
    /\ The(text)[9] = 255 /\ The(text)[12] = 33
    /\ Len(The(parsed).cid.Bytes) = 4

\* A text with the byte 255 where the decoder does not take it for padding
\* was refused.
PadByteTextRefused ==
    /\ text # None /\ parsed # None /\ The(parsed).err = ErrCorruptInput
    /\ Len(The(text)) = 59 /\ The(text)[9] = 255 /\ The(text)[59] = 97

SortedTextRefused ==
    /\ text # None /\ parsed # None /\ The(parsed).err # Nil
    /\ Len(The(text)) = 8 /\ InAlphabet(Tail(The(text)), SortedAlphabet)
    /\ WellFormedCidBytes(BytesOf(Tail(The(text)), SortedAlphabet))

(***************************************************************************)
(* C13.  TID round trip: for a timestamp of 0..2^53-1 and a clock id of    *)
(* 0..1023, Create gives 13 characters that Validate accepts and that      *)
(* Parse turns back into the timestamp and the clock id, without error.    *)
(***************************************************************************)
InTidRange(timestamp) == timestamp[1] = 0 /\ timestamp[2] < 32
InClockIdRange(clockId) == (\A i \in 1..6 : clockId[i] = 0) /\ clockId[7] < 4
CreatedInRange ==
    /\ tidIn # None
    /\ InTidRange(The(tidIn).timestamp) /\ InClockIdRange(The(tidIn).clockId)

C13_TidRoundTrip ==
    CreatedInRange =>
        /\ Len(The(tidText)) = 13
        /\ tidValid # None => The(tidValid) = Nil
        /\ tidParsed # None =>
               The(tidParsed) = [timestamp |-> The(tidIn).timestamp,
                                 clockId |-> The(tidIn).clockId, err |-> Nil]

\* The largest timestamp and clock id went through Create, Validate and Parse.
C13_Witness ==
    /\ CreatedInRange /\ tidValid # None /\ tidParsed # None
    /\ The(tidIn).timestamp = MaxTimestamp /\ The(tidIn).clockId = U64(1023)

(***************************************************************************)
(* C12.  Clock monotonicity: whatever the interleaving of the calls of     *)
(* Now on one Clock and whatever the time source gives, the timestamps     *)
(* issued are pairwise distinct, c.last is strictly greater after each     *)
(* lock than before it, and a call that starts after another has returned  *)
(* gives a strictly greater TID.                                           *)
(***************************************************************************)
Int64Less(a, b) == ~Int64LessEq(b, a)
\* c.last before the i-th lock was taken.
LastBefore(i) == IF i = 1 THEN U64(0) ELSE stamps[i - 1]

StampsDistinct(i) == \A j \in 1..(i - 1) : stamps[j] # stamps[i]
LastIncreases(i) == Int64Less(LastBefore(i), stamps[i])
LaterIsGreater(p) ==
    (call[p].pc = "done" /\ call[p].before # <<>>)
        => Compare(call[p].before, call[p].ret) < 0

\* C12: the timestamps issued are pairwise distinct, c.last increases with
\* each lock, and a call started after a return gives a greater TID.
C12_ClockMonotonic ==
    /\ \A i \in 1..Len(stamps) : StampsDistinct(i) /\ LastIncreases(i)
    /\ \A p \in Goroutines : LaterIsGreater(p)

\* The part of C12 on the stored values: it holds, c.last never being the
\* largest int64 here.
StampsIncrease == \A i \in 1..Len(stamps) : StampsDistinct(i) /\ LastIncreases(i)

\* The part on the TIDs holds as long as the timestamps issued are below 2^53.
TidsIncreaseBelowWrap ==
    (\A i \in 1..Len(stamps) : InTidRange(stamps[i]))
        => \A p \in Goroutines : LaterIsGreater(p)

\* A call that started after "bzzzzzzzzzz22" had been returned for the
\* timestamp 2^53 - 1 was given 2^53 and returned "2222222222222".
TidWentBack ==
    \E p \in Goroutines :
        /\ call[p].pc = "done" /\ clock.id = U64(0)
        /\ call[p].now = IncBytes(MaxTimestamp)
        /\ call[p].before = <<98, 122, 122, 122, 122, 122, 122, 122, 122, 122, 122, 50, 50>>
        /\ call[p].ret = <<50, 50, 50, 50, 50, 50, 50, 50, 50, 50, 50, 50, 50>>

(***************************************************************************)
(* C14.  Container stack discipline: a header with a non-zero count pushes *)
(* one container whose remaining is the count (twice the count of pairs    *)
(* for a map); every item fed takes one off the remaining of the top       *)
(* container; a container is popped exactly when its remaining is zero,    *)
(* holding then its declared number of elements or pairs, and is fed to    *)
(* its parent or is the result; a map has a key pending exactly when its   *)
(* remaining is odd.                                                       *)
(***************************************************************************)
\* What has been fed to a container.
Fed(k) ==
    IF k.isMap
    THEN 2 * Cardinality(DOMAIN k.elements) + (IF k.currMapKey # NilRef THEN 1 ELSE 0)
    ELSE Len(k.elements)
\* What a container is to be fed in all.
Due(k) == IF k.isMap THEN 2 * ToNat(k.declared) ELSE ToNat(k.declared)
\* remaining is what is due less what has been fed.  (A count the model
\* cannot write as a natural is far above all that can have been fed.)
RemainingIsRest(k) ==
    IF IsSmall(k.declared) /\ k.declared[5] < 64
    THEN IsSmall(k.remaining) /\ ToNat(k.remaining) + Fed(k) = Due(k)
    ELSE ~IsSmall(k.remaining)
KeyPendingIffOdd(k) == k.isMap => (k.currMapKey # NilRef <=> k.remaining[8] % 2 = 1)
ContainerOk(k) ==
    /\ k.declared # U64(0) /\ k.remaining # U64(0)
    /\ RemainingIsRest(k) /\ KeyPendingIffOdd(k)

Size(x) == IF x.t = "map" THEN Cardinality(DOMAIN x.v) ELSE Len(x.v)

\* The steps of the decoder as they move the stack.
Pushes == d.pc = "loop" /\ d'.pc = "loop" /\ Len(d'.stack) = Len(d.stack) + 1
Feeds == d.pc = "feed" /\ d.stack # <<>> /\ d'.pc # "ret"
PushStep ==
    Pushes => /\ Tail(d'.stack) = d.stack
              /\ d'.stack[1].declared = d'.arg /\ Fed(d'.stack[1]) = 0
              /\ d'.stack[1].isMap = (d'.majorType = 5)
FeedStep ==
    Feeds => IF DecBytes(d.stack[1].remaining) = U64(0)
             THEN /\ d'.stack = Tail(d.stack) /\ d'.pc = "feed"
                  /\ d'.currVal.t = (IF d.stack[1].isMap THEN "map" ELSE "array")
                  /\ U64(Size(d'.currVal)) = d.stack[1].declared
             ELSE /\ Len(d'.stack) = Len(d.stack) /\ d'.pc = "loop"
                  /\ Tail(d'.stack) = Tail(d.stack)
                  /\ d'.stack[1].remaining = DecBytes(d.stack[1].remaining)
                  /\ Fed(d'.stack[1]) = Fed(d.stack[1]) + 1
OtherStep ==
    (~Pushes /\ ~Feeds) => d'.stack = d.stack
StackOk == \A i \in 1..Len(d.stack) : ContainerOk(d.stack[i])

C14_StackDiscipline == [][StackOk /\ PushStep /\ FeedStep /\ OtherStep]_vars

\* The same for the containers whose count of pairs does not wrap when
\* doubled: all that C14 says but what the bug of C5 breaks.
NoWrap == \A i \in 1..Len(d.stack) : d.stack[i].isMap => d.stack[i].declared[1] < 128
StackDisciplineBelowWrap ==
    [][(NoWrap /\ NoWrap') => (StackOk /\ PushStep /\ FeedStep /\ OtherStep)]_vars


(***************************************************************************)
(* C15.  Negative integers: for every 64-bit argument a of a major type 1  *)
(* item the value the decoder makes of it is negative and equals -1 - a;   *)
(* no argument gives a value that is non-negative or wrapped around.       *)
(***************************************************************************)
\* The step reads an item of major type 1 and takes it to the feed loop.
ReadsNegative == d.pc = "loop" /\ d'.pc = "feed" /\ d'.majorType = 1

\* v + a = -1: the two 64-bit patterns add up to all ones without a carry,
\* which for a negative v is the equation on the integers.
MinusOneLess(v, a) == \A i \in 1..8 : v[i] + a[i] = 255

C15_NegativeIsMinusOneLessArgument ==
    [][ReadsNegative => /\ d'.currVal.t = "int64"
                        /\ IsNegInt(d'.currVal.v)
                        /\ MinusOneLess(d'.currVal.v, d'.arg)]_vars

\* The same for the arguments below 2^63, the ones int64(arg) keeps.
NegativeBelowWrap ==
    [][(ReadsNegative /\ ~IsNegInt(d'.arg))
          => /\ d'.currVal.t = "int64"
             /\ IsNegInt(d'.currVal.v)
             /\ MinusOneLess(d'.currVal.v, d'.arg)]_vars

(***************************************************************************)
(* C16.  Encoder buffer safety: over every sequence of writes from the     *)
(* first buffer of 1024 bytes the cursor never passes the end of the       *)
(* buffer, no write indexes past the end of the buffer (a float written    *)
(* with exactly 8 bytes left included), and Encode returns exactly the     *)
(* bytes written, in the order of the writes.                              *)
(***************************************************************************)
CursorInBuffer == enc.p <= enc.len /\ enc.len = enc.cap
NoWritePastEnd == ~IsPanic(enc.err)
BufferHoldsWritten == enc.err = Nil => SubSeq(Buffer(enc), 1, enc.p) = written
ReturnsWritten == encRet # None => The(encRet) = written

C16_EncoderBufferSafety ==
    CursorInBuffer /\ NoWritePastEnd /\ BufferHoldsWritten /\ ReturnsWritten

\* The one write that fails: a float with exactly 8 bytes left, after its
\* marker is stored.
OnlyFloatAtEightFails ==
    [][enc'.err # Nil => /\ enc.p + 8 = enc.len
                         /\ enc'.out = enc.out \o <<251>>
                         /\ enc'.err = PanicIndex]_vars

\* Everything but the panic holds of every sequence of writes.
BufferSafeButForPanic == CursorInBuffer /\ BufferHoldsWritten /\ ReturnsWritten
============================================================================
